---- MODULE Spec2Model ----
(***************************************************************************)
(* readme-tsdoc: the document splicer (updateReadme) and the renderer      *)
(* (generateMarkdownDoc), with the TypeScript compiler and git as oracles. *)
(*                                                                         *)
(* Texts are sequences of characters.  A character is a one-character      *)
(* string, except for the three below that a TLA+ string cannot hold, or   *)
(* that stand for a literal the regular expressions treat as one unit.     *)
(* Offsets are JavaScript's: 0-based, so text[k+1] is the character at     *)
(* offset k.                                                               *)
(***************************************************************************)
EXTENDS Naturals, Sequences, FiniteSets, TLC

VARIABLES
  disk,           \* content of the document file at readmePath
  table,          \* export table of the source file "a" (never changes)
  pc,             \* where updateReadme stands
  run,            \* number of the current invocation
  readme,         \* the text loaded by readFileSync
  updatedReadme,  \* the working text
  matches,        \* the matches of markerRegex, last first
  i,              \* index in matches of the next one to splice
  reads,          \* reads of the document file in this invocation
  writes,         \* writes of the document file in this invocation
  generated,      \* calls of generateMarkdownDoc that returned, this invocation
  stdout,         \* lines logged with console.log in this invocation
  stderr,         \* lines logged with console.error, or the uncaught error
  exitCode,       \* the process's exit code, Null while it runs
  original,       \* history: the document before the first invocation
  firstOutput,    \* history: the document written by the first invocation
  last,           \* history: the latest splice of this invocation
  repo,           \* the repository URL of --repo-url, Null when not given
  gitLsFiles,     \* what `git ls-files --full-name` answers for the source file
  rpc,            \* where a call of generateMarkdownDoc stands
  cursor,         \* index in the export table of the next symbol
  fragment,       \* the output of generateMarkdownDoc so far
  calls,          \* calls of generateMarkdownDoc that returned
  firstFragment,  \* history: what the first call returned
  rendered,       \* history: the latest call of generateSymbolDoc
  fn,             \* the function called on its own, "none" when there is none
  input,          \* the argument of that call
  walk,           \* isConst's local `node`
  answer          \* what the call returned, NoAnswer before it returns

vars == <<disk, table, pc, run, readme, updatedReadme, matches, i, reads,
          writes, generated, stdout, stderr, exitCode, original, firstOutput,
          last, repo, gitLsFiles, rpc, cursor, fragment, calls, firstFragment,
          rendered, fn, input, walk, answer>>

\* the state of updateReadme, but for the export table
svars == <<disk, pc, run, readme, updatedReadme, matches, i, reads, writes,
           generated, stdout, stderr, exitCode, original, firstOutput, last>>

\* the state of a call of generateMarkdownDoc, but for the export table
rvars == <<repo, gitLsFiles, rpc, cursor, fragment, calls, firstFragment,
           rendered>>

\* the state of a function of the renderer called on its own
uvars == <<fn, input, walk, answer>>

NL == "\n"
SP == " "
TAB == "\t"
HASH == "#"
COLON == ":"
BQ == "bq"       \* the backtick character
MIDDOT == "~"    \* the middle dot U+00B7 of the title lines
PHRASE == "M"    \* the search phrase, escaped so that it matches literally

\* ---------------------------------------------------------------- bounds
MaxLines == 4    \* lines of the document before the first pass
MaxRuns == 2     \* successive invocations of updateReadme on the same file
MaxMembers == 3  \* members of a class
MaxExports == 2  \* exports of a source file
MaxCalls == 2    \* successive calls of generateMarkdownDoc
MaxStale == 45   \* characters of a line of old text in a region
MaxDepth == 2    \* nodes that enclose the statement of a variable declaration
MaxParams == 2   \* parameters, or type parameters, of a declaration
MaxTags == 2     \* tags of a doc comment

\* ------------------------------------------------- character classes
WhiteSpace == {SP, NL, TAB}              \* \s
LeadChars == {SP, BQ}                    \* [ `]
TrailChars == {BQ, COLON, SP}            \* [`: ] and the complement of [^`: ]

RECURSIVE SkipIn(_, _, _)
\* first position >= p whose character is not in S (Len+1 when none)
SkipIn(t, p, S) ==
  IF p <= Len(t) /\ t[p] \in S THEN SkipIn(t, p + 1, S) ELSE p

RECURSIVE SkipNotIn(_, _, _)
\* first position >= p whose character is in S (Len+1 when none)
SkipNotIn(t, p, S) ==
  IF p <= Len(t) /\ t[p] \notin S THEN SkipNotIn(t, p + 1, S) ELSE p

RECURSIVE LastNewline(_, _, _)
\* greatest position e, lo < e <= hi, holding a newline (0 when none)
LastNewline(t, hi, lo) ==
  IF hi <= lo THEN 0
  ELSE IF t[hi] = NL THEN hi
  ELSE LastNewline(t, hi - 1, lo)

Hashes(n) == [k \in 1..n |-> HASH]

\* String.prototype.substring with 0-based offsets
Substring(t, from, to) == SubSeq(t, from + 1, to)
SubstringFrom(t, from) == SubSeq(t, from + 1, Len(t))

NoMatch == [ok |-> FALSE]

\* The third group of markerRegex tried at position q (1-based):
\*   .*?\n PHRASE [ `]* ([^`: ]+) [`: ]* \n
\* The lazy .*? cannot cross a newline, so it ends at the first one; the
\* greedy [ `]* takes its whole run (anything shorter leaves a character the
\* path class rejects); the greedy path class takes its whole run (which may
\* hold newlines) and is backed off to the last newline inside it when the
\* run is not followed by [`: ]* and a newline.
RestMatch(t, q) ==
  LET nl == SkipNotIn(t, q, {NL})
  IN IF nl + 1 > Len(t) \/ t[nl + 1] # PHRASE THEN NoMatch
     ELSE LET s == SkipIn(t, nl + 2, LeadChars)
              r == SkipNotIn(t, s, TrailChars)
              z == SkipIn(t, r, TrailChars)
              e == LastNewline(t, r - 1, s)
          IN IF r = s THEN NoMatch
             ELSE IF z <= Len(t) /\ t[z] = NL
                  THEN [ok |-> TRUE, g3 |-> q, marker |-> nl + 1,
                        pathFrom |-> s, pathTo |-> r - 1, next |-> z + 1]
             ELSE IF e # 0
                  THEN [ok |-> TRUE, g3 |-> q, marker |-> nl + 1,
                        pathFrom |-> s, pathTo |-> e - 1, next |-> e + 1]
             ELSE NoMatch

RECURSIVE HeadingRest(_, _, _)
\* \s+ of the first group is greedy: the longest whitespace run first, then
\* shorter ones, until the third group matches behind it
HeadingRest(t, e, lo) ==
  IF e <= lo THEN NoMatch
  ELSE LET m == RestMatch(t, e)
       IN IF m.ok THEN m ELSE HeadingRest(t, e - 1, lo)

AtLineStart(t, p) == p = 1 \/ t[p - 1] = NL

\* markerRegex tried at position p (1-based):
\*   (^(#{1,6})\s+)? followed by the third group
\* level is the length of the second group, 0 when the first group is absent
MatchAt(t, p) ==
  LET h == SkipIn(t, p, {HASH}) - p
      w == SkipIn(t, p + h, WhiteSpace)
      withHeading == IF AtLineStart(t, p) /\ h >= 1 /\ h <= 6
                     THEN HeadingRest(t, w, p + h)
                     ELSE NoMatch
      plain == RestMatch(t, p)
  IN IF withHeading.ok
     THEN [ok |-> TRUE, index |-> p - 1, level |-> h,
           g3 |-> withHeading.g3, marker |-> withHeading.marker,
           pathFrom |-> withHeading.pathFrom, pathTo |-> withHeading.pathTo,
           end |-> withHeading.next - 1]
     ELSE IF plain.ok
     THEN [ok |-> TRUE, index |-> p - 1, level |-> 0,
           g3 |-> plain.g3, marker |-> plain.marker,
           pathFrom |-> plain.pathFrom, pathTo |-> plain.pathTo,
           end |-> plain.next - 1]
     ELSE NoMatch

RECURSIVE MatchAllFrom(_, _)
\* String.prototype.matchAll: leftmost match at or after lastIndex, then on
\* from the end of that match (no match of markerRegex is empty).  When no
\* match starts at p, none starts further on in p's line either (the first
\* group needs a line start, the third group fails on the same newline), so
\* the scan goes on at the next line.
MatchAllFrom(t, p) ==
  IF p > Len(t) THEN <<>>
  ELSE LET m == MatchAt(t, p)
       IN IF m.ok THEN <<m>> \o MatchAllFrom(t, m.end + 1)
          ELSE MatchAllFrom(t, SkipNotIn(t, p, {NL}) + 1)

MatchAll(t) == MatchAllFrom(t, 1)

Reverse(s) == [k \in 1..Len(s) |-> s[Len(s) + 1 - k]]

RECURSIVE HeadingFrom(_, _, _)
\* headingRegex /^(#{1,6})\s+/gm run from position p (1-based): the offset
\* of the first heading of level <= maxLevel, the text length when none; a
\* heading too deep moves lastIndex behind its whitespace, anything else
\* moves the scan to the next line start
HeadingFrom(t, p, maxLevel) ==
  IF p > Len(t) THEN Len(t)
  ELSE LET h == SkipIn(t, p, {HASH}) - p
           w == SkipIn(t, p + h, WhiteSpace)
       IN IF AtLineStart(t, p) /\ h >= 1 /\ h <= 6 /\ w > p + h
          THEN IF h <= maxLevel THEN p - 1
               ELSE HeadingFrom(t, w, maxLevel)
          ELSE HeadingFrom(t, SkipNotIn(t, p, {NL}) + 1, maxLevel)

findNextHeadingBoundary(text, startPos, maxLevel) ==
  HeadingFrom(text, startPos + 1, maxLevel)

\* ------------------------------------------------------------ renderer
\* The TypeScript compiler is an oracle; its answers are carried by the
\* records the renderer walks.
\*   node    kind (the SyntaxKind), line (of getStart), modifiers, flags,
\*           jsDoc (the attached doc comments), parent, name, typeParameters,
\*           parameters, members, type (text of a type alias's type node),
\*           initializer, expression, declarationList, heritageClauses,
\*           symbol (what
\*           checker.getSymbolAtLocation answers for the node or its name)
\*   symbol  flags, valueDeclaration, declarations, typeString (what
\*           checker.typeToString renders for it, Null when the oracle
\*           throws), aliased (what checker.getAliasedSymbol answers)
\*   jsDoc   comment and tags; a tag has tagName, name and comment
\* An absent value (undefined, null) is NoNode, NoSymbol, NoDoc, NoName or
\* the empty text; a text that is null is Null.
Null == <<"null">>   \* no text: no character is "null"

\* the result of a call that throws: no character is "throw"
Thrown == <<"throw">>

\* a + b of two results, the first of which is computed first
Then(a, b) == IF a = Thrown \/ b = Thrown THEN Thrown ELSE a \o b

NoNode == [kind |-> "none"]
NoSymbol == [tag |-> "none"]
ThrowsSymbol == [tag |-> "throws"]
NoDoc == [present |-> FALSE, comment |-> <<>>, tags |-> <<>>]
NoName == [text |-> <<>>, escapedText |-> <<>>]

StartsWith(t, pre) ==
  Len(t) >= Len(pre) /\ SubSeq(t, 1, Len(pre)) = pre

Includes(t, sub) ==
  \E k \in 0..(Len(t) - Len(sub)) : SubSeq(t, k + 1, k + Len(sub)) = sub

Arrow == <<"=", ">">>
TypeofSp == <<"t", "y", "p", "e", "o", "f", SP>>
TwoNL == <<NL, NL>>
Sep == <<SP, MIDDOT, SP>>
Undefined == <<"u", "n", "d", "e", "f", "i", "n", "e", "d">>
Unknown == <<"u", "n", "k", "n", "o", "w", "n">>

\* `${x}` of a text that may be undefined
Interpolate(x) == IF x = <<>> THEN Undefined ELSE x

\* s?.[0] of a list of nodes, and a || b of two nodes
FirstNode(s) == IF s = <<>> THEN NoNode ELSE s[1]
OrNode(a, b) == IF a.kind # "none" THEN a ELSE b

\* String.prototype.trim
RECURSIVE TrimEnd(_)
TrimEnd(t) ==
  IF t # <<>> /\ t[Len(t)] \in WhiteSpace
  THEN TrimEnd(SubSeq(t, 1, Len(t) - 1)) ELSE t

Trim(t) == TrimEnd(SubSeq(t, SkipIn(t, 1, WhiteSpace), Len(t)))

GitLab == <<"g", "i", "t", "l", "a", "b", ".", "c", "o", "m">>
SchemeSep == <<COLON, "/", "/">>
Www == <<"w", "w", "w", ".">>

\* execSync of `git ls-files --full-name` answers gitLsFiles: the command's
\* output, or the command fails and execSync throws
generateDeepLink(repoUrl, filePath, lineNumber) ==
  IF gitLsFiles.status # 0 THEN Thrown
  ELSE LET relativePath == Trim(gitLsFiles.stdout)
           baseUrl == IF repoUrl[Len(repoUrl)] = "/"
                      THEN SubSeq(repoUrl, 1, Len(repoUrl) - 1) ELSE repoUrl
           isGitLab == \/ Includes(baseUrl, SchemeSep \o GitLab)
                       \/ Includes(baseUrl, SchemeSep \o Www \o GitLab)
       IN IF relativePath = <<>> THEN Null
          ELSE baseUrl
               \o (IF isGitLab
                   THEN <<"/", "-", "/", "b", "l", "o", "b", "/", "m", "a",
                          "i", "n", "/">>
                   ELSE <<"/", "b", "l", "o", "b", "/", "m", "a", "i", "n",
                          "/">>)
               \o relativePath \o <<HASH, "L", ToString(lineNumber)>>

\* the type label wrapped into a link, when a repository URL is configured
\* and the lookup gives one
WithDeepLink(label, repoUrl, sourceFile, node) ==
  IF repoUrl # Null /\ repoUrl # <<>>
  THEN LET deepLink == generateDeepLink(repoUrl, sourceFile.fileName, node.line)
       IN IF deepLink = Thrown THEN Thrown
          ELSE IF deepLink = Null THEN label
          ELSE <<"[">> \o label \o <<"]", "(">> \o deepLink \o <<")">>
  ELSE label

resolveSymbol(symbol) ==
  LET declaration == OrNode(symbol.valueDeclaration,
                            FirstNode(symbol.declarations))
      fallBack == [declaration |-> declaration, originalSymbol |-> symbol,
                   exportDeclaration |-> declaration]
  IN IF declaration.kind = "ExportSpecifier" /\ "Alias" \in symbol.flags
     THEN LET aliasedSymbol == symbol.aliased
          IN IF aliasedSymbol.tag = "symbol"
                /\ aliasedSymbol.valueDeclaration.kind # "none"
             THEN [declaration |-> OrNode(aliasedSymbol.valueDeclaration,
                                          FirstNode(aliasedSymbol.declarations)),
                   originalSymbol |-> aliasedSymbol,
                   exportDeclaration |-> declaration]
             ELSE fallBack
     ELSE IF declaration.kind = "VariableDeclaration"
             /\ declaration.initializer.kind = "AsExpression"
     THEN LET expr == declaration.initializer.expression
              innerSymbol == IF expr.kind # "none" THEN expr.symbol
                             ELSE NoSymbol
          IN IF innerSymbol.tag = "symbol"
                /\ innerSymbol.valueDeclaration.kind # "none"
             THEN [declaration |-> OrNode(innerSymbol.valueDeclaration,
                                          FirstNode(innerSymbol.declarations)),
                   originalSymbol |-> innerSymbol,
                   exportDeclaration |-> declaration]
             ELSE fallBack
     ELSE fallBack

\* checker.typeToString of the symbol's type, null when the oracle throws
getTypeInfo(symbol, declaration) == symbol.typeString

RECURSIVE isConst(_)
isConst(node) ==
  IF node.kind = "none" THEN FALSE
  ELSE IF "Const" \in node.flags THEN TRUE
  ELSE IF node.kind = "VariableStatement"
  THEN node.declarationList.kind # "none"
       /\ "Const" \in node.declarationList.flags
  ELSE isConst(node.parent)

\* a class passes for abstract when a class it is derived from is abstract
IsAbstractOrDerived(node) ==
  \/ "AbstractKeyword" \in node.modifiers
  \/ \E k \in 1..Len(node.heritageClauses) :
        "AbstractKeyword" \in node.heritageClauses[k].modifiers

\* modifiers?.some(mod => mod.kind === SyntaxKind.AbstractKeyword)
IsAbstract(node) == "AbstractKeyword" \in node.modifiers

\* getTypeLabel that looks at the binding before the rendered type
getTypeLabelConstFirst(declaration, typeString) ==
  IF declaration.kind = "VariableDeclaration"
  THEN IF isConst(declaration)
       THEN <<"c", "o", "n", "s", "t", "a", "n", "t">>
       ELSE IF typeString # Null
               /\ (Includes(typeString, Arrow) \/ StartsWith(typeString, <<"(">>))
       THEN <<"f", "u", "n", "c", "t", "i", "o", "n">>
       ELSE <<"v", "a", "r", "i", "a", "b", "l", "e">>
  ELSE IF declaration.kind = "FunctionDeclaration"
  THEN <<"f", "u", "n", "c", "t", "i", "o", "n">>
  ELSE <<"v", "a", "l", "u", "e">>

getTypeLabel(declaration, typeString) ==
  LET kind == declaration.kind
  IN IF kind = "FunctionDeclaration"
     THEN <<"f", "u", "n", "c", "t", "i", "o", "n">>
     ELSE IF kind = "ClassDeclaration"
     THEN IF IsAbstract(declaration)
          THEN <<"a", "b", "s", "t", "r", "a", "c", "t", SP,
                 "c", "l", "a", "s", "s">>
          ELSE <<"c", "l", "a", "s", "s">>
     ELSE IF kind = "InterfaceDeclaration"
     THEN <<"i", "n", "t", "e", "r", "f", "a", "c", "e">>
     ELSE IF kind = "TypeAliasDeclaration"
     THEN <<"t", "y", "p", "e">>
     ELSE IF kind = "VariableDeclaration"
     THEN IF typeString # Null /\ typeString # <<>>
             /\ (Includes(typeString, Arrow) \/ StartsWith(typeString, <<"(">>))
          THEN <<"f", "u", "n", "c", "t", "i", "o", "n">>
          ELSE IF typeString # Null /\ typeString # <<>>
                  /\ StartsWith(typeString, TypeofSp)
                  /\ ~Includes(typeString, Arrow)
          THEN <<"c", "l", "a", "s", "s">>
          ELSE IF isConst(declaration)
          THEN <<"c", "o", "n", "s", "t", "a", "n", "t">>
          ELSE <<"v", "a", "r", "i", "a", "b", "l", "e">>
     ELSE IF typeString # Null /\ Includes(typeString, Arrow)
     THEN <<"f", "u", "n", "c", "t", "i", "o", "n">>
     ELSE <<"v", "a", "l", "u", "e">>

extractJSDoc(declaration) ==
  IF declaration.kind = "none" THEN NoDoc
  ELSE IF declaration.jsDoc # <<>> THEN declaration.jsDoc[1]
  ELSE IF declaration.kind = "VariableDeclaration"
  THEN IF declaration.parent.kind # "none" /\ declaration.parent.jsDoc # <<>>
       THEN declaration.parent.jsDoc[1]
       ELSE IF declaration.parent.kind # "none"
               /\ declaration.parent.parent.kind # "none"
               /\ declaration.parent.parent.jsDoc # <<>>
       THEN declaration.parent.parent.jsDoc[1]
       ELSE NoDoc
  ELSE NoDoc

TypeLine == <<"*", "*", "T", "y", "p", "e", COLON, "*", "*", SP>>
ValueLine == <<"*", "*", "V", "a", "l", "u", "e", COLON, "*", "*", SP>>
SignatureLine ==
  <<"*", "*", "S", "i", "g", "n", "a", "t", "u", "r", "e", COLON, "*", "*", SP>>
ParametersHead ==
  <<"*", "*", "P", "a", "r", "a", "m", "e", "t", "e", "r", "s", COLON, "*",
    "*", NL, NL>>
TypeParametersHead ==
  <<"*", "*", "T", "y", "p", "e", SP, "P", "a", "r", "a", "m", "e", "t", "e",
    "r", "s", COLON, "*", "*", NL, NL>>
ConstructorParametersHead ==
  <<"*", "*", "C", "o", "n", "s", "t", "r", "u", "c", "t", "o", "r", SP, "P",
    "a", "r", "a", "m", "e", "t", "e", "r", "s", COLON, "*", "*", NL, NL>>
ReturnsHead ==
  <<"*", "*", "R", "e", "t", "u", "r", "n", "s", COLON, "*", "*", SP>>
ThrowsHead ==
  <<"*", "*", "T", "h", "r", "o", "w", "s", COLON, "*", "*", NL, NL>>
ExamplesHead ==
  <<"*", "*", "E", "x", "a", "m", "p", "l", "e", "s", COLON, "*", "*", NL, NL>>
Unavailable ==
  <<"*", "T", "y", "p", "e", SP, "i", "n", "f", "o", "r", "m", "a", "t",
    "i", "o", "n", SP, "u", "n", "a", "v", "a", "i", "l", "a", "b", "l",
    "e", "*", NL, NL>>
NoDeclaration ==
  <<NL, NL, "*", "N", "o", SP, "d", "e", "c", "l", "a", "r", "a", "t", "i",
    "o", "n", SP, "f", "o", "u", "n", "d", "*", NL, NL>>

\* `x` in a template literal: the text between two backticks
Code(t) == <<BQ>> \o t \o <<BQ>>

\* jsDoc.tags.filter(tag => tag.tagName?.escapedText === tagName)
TagsNamed(tags, tagName) == SelectSeq(tags, LAMBDA tag : tag.tagName = tagName)

\* tag.name?.escapedText || tag.name?.getText?.() || 'unknown'
TagName(tag) ==
  IF tag.name.escapedText # <<>> THEN tag.name.escapedText
  ELSE IF tag.name.text # <<>> THEN tag.name.text
  ELSE Unknown

RECURSIVE ExampleLines(_)
ExampleLines(tags) ==
  IF tags = <<>> THEN <<>>
  ELSE Interpolate(Head(tags).comment) \o TwoNL \o ExampleLines(Tail(tags))

RECURSIVE ThrowsLines(_)
ThrowsLines(tags) ==
  IF tags = <<>> THEN <<>>
  ELSE <<"-", SP>> \o Interpolate(Head(tags).comment) \o <<NL>>
       \o ThrowsLines(Tail(tags))

ExamplesBlock(tags) ==
  LET exampleTags == TagsNamed(tags, "example")
  IN IF exampleTags # <<>> THEN ExamplesHead \o ExampleLines(exampleTags)
     ELSE <<>>

generateJSDocTags(jsDoc) ==
  IF jsDoc.tags = <<>> THEN <<>>
  ELSE LET returnTags == TagsNamed(jsDoc.tags, "returns")
           throwsTags == TagsNamed(jsDoc.tags, "throws")
       IN (IF returnTags # <<>> /\ returnTags[1].comment # <<>>
           THEN ReturnsHead \o returnTags[1].comment \o TwoNL ELSE <<>>)
          \o (IF throwsTags # <<>>
              THEN ThrowsHead \o ThrowsLines(throwsTags) \o <<NL>> ELSE <<>>)
          \o ExamplesBlock(jsDoc.tags)

RECURSIVE ParamTagLines(_, _)
\* one line per @param tag; sep stands between the name and the comment
ParamTagLines(tags, sep) ==
  IF tags = <<>> THEN <<>>
  ELSE <<"-", SP>> \o Code(TagName(Head(tags))) \o sep \o Head(tags).comment
       \o <<NL>> \o ParamTagLines(Tail(tags), sep)

generateJSDocBasedFunctionDoc(jsDoc) ==
  LET paramTags == TagsNamed(jsDoc.tags, "param")
  IN (IF paramTags # <<>>
      THEN ParametersHead \o ParamTagLines(paramTags, <<SP, "-", SP>>)
           \o <<NL>>
      ELSE <<>>)
     \o generateJSDocTags(jsDoc)

\* the comment of the first @template tag that is written with the name
TemplateDocByName(typeParameters, templateTags, name, k) ==
  LET named == SelectSeq(templateTags, LAMBDA tag : tag.name.text = name)
  IN IF named = <<>> THEN <<>>
     ELSE IF StartsWith(named[1].comment, <<"-", SP>>)
     THEN SubSeq(named[1].comment, 3, Len(named[1].comment))
     ELSE named[1].comment

\* templateDocs.get(name): the entry written last among the type parameters
\* of that name that have a @template tag at their position
RECURSIVE TemplateDoc(_, _, _, _)
TemplateDoc(typeParameters, templateTags, name, k) ==
  IF k = 0 THEN <<>>
  ELSE IF k <= Len(templateTags) /\ typeParameters[k].name = name
  THEN LET comment == templateTags[k].comment
       IN IF StartsWith(comment, <<"-", SP>>)
          THEN SubSeq(comment, 3, Len(comment)) ELSE comment
  ELSE TemplateDoc(typeParameters, templateTags, name, k - 1)

RECURSIVE TypeParameterLines(_, _, _)
TypeParameterLines(typeParameters, templateTags, k) ==
  IF k > Len(typeParameters) THEN <<>>
  ELSE LET param == typeParameters[k]
           constraint == IF param.constraint # <<>>
                         THEN <<SP, "e", "x", "t", "e", "n", "d", "s", SP>>
                              \o param.constraint
                         ELSE <<>>
           defaultType == IF param.default # <<>>
                          THEN <<SP, "=", SP>> \o param.default ELSE <<>>
           comment == TemplateDoc(typeParameters, templateTags, param.name,
                                  Len(typeParameters))
           commentText == IF comment # <<>> THEN <<SP, "-", SP>> \o comment
                          ELSE <<>>
       IN <<"-", SP>> \o Code(param.name \o constraint \o defaultType)
          \o commentText \o <<NL>>
          \o TypeParameterLines(typeParameters, templateTags, k + 1)

generateTypeParameters(typeParameters, jsDoc) ==
  TypeParametersHead
  \o TypeParameterLines(typeParameters, TagsNamed(jsDoc.tags, "template"), 1)
  \o <<NL>>

\* jsDoc.tags.find(tag => @param named name)?.comment
ParamTagComment(tags, name) ==
  LET found == SelectSeq(tags, LAMBDA tag :
                   /\ tag.tagName = "param"
                   /\ (tag.name.escapedText = name \/ tag.name.text = name))
  IN IF found = <<>> THEN <<>> ELSE found[1].comment

RECURSIVE ParameterLines(_, _)
ParameterLines(parameters, jsDoc) ==
  IF parameters = <<>> THEN <<>>
  ELSE LET param == Head(parameters)
           type == IF param.type # <<>> THEN param.type ELSE <<"a", "n", "y">>
           isOptional == IF param.questionToken THEN <<"?">> ELSE <<>>
           hasDefault == IF param.initializer
                         THEN <<SP, "(", "o", "p", "t", "i", "o", "n", "a",
                                "l", ")">>
                         ELSE <<>>
           found == ParamTagComment(jsDoc.tags, param.name)
           comment == IF found # <<>> THEN <<SP, "-", SP>> \o found ELSE <<>>
       IN <<"-", SP>> \o Code(param.name \o isOptional \o <<COLON, SP>> \o type)
          \o hasDefault \o comment \o <<NL>>
          \o ParameterLines(Tail(parameters), jsDoc)

generateParameters(declaration) ==
  LET jsDoc == IF declaration.jsDoc # <<>> THEN declaration.jsDoc[1] ELSE NoDoc
  IN ParametersHead \o ParameterLines(declaration.parameters, jsDoc) \o <<NL>>

generateFunctionDoc(declaration, typeString, jsDocObject) ==
  LET resolvedJSDoc == IF jsDocObject.present THEN jsDocObject
                       ELSE IF declaration.jsDoc # <<>> THEN declaration.jsDoc[1]
                       ELSE NoDoc
      doc == SignatureLine \o Code(typeString) \o TwoNL
  IN IF declaration.kind = "VariableDeclaration" /\ resolvedJSDoc.tags # <<>>
     THEN doc \o generateJSDocBasedFunctionDoc(resolvedJSDoc)
     ELSE doc
          \o (IF declaration.typeParameters # <<>>
              THEN generateTypeParameters(declaration.typeParameters,
                                          resolvedJSDoc)
              ELSE <<>>)
          \o (IF declaration.parameters # <<>>
              THEN generateParameters(declaration) ELSE <<>>)
          \o generateJSDocTags(resolvedJSDoc)

getMemberType(member, isStatic) ==
  LET abstractPrefix == IF IsAbstract(member)
                        THEN <<"a", "b", "s", "t", "r", "a", "c", "t", SP>>
                        ELSE <<>>
      staticPrefix == IF isStatic
                      THEN <<"s", "t", "a", "t", "i", "c", SP>> ELSE <<>>
      base == CASE member.kind = "MethodDeclaration"
                     -> <<"m", "e", "t", "h", "o", "d">>
                [] member.kind = "PropertyDeclaration"
                     -> <<"p", "r", "o", "p", "e", "r", "t", "y">>
                [] member.kind = "GetAccessor"
                     -> <<"g", "e", "t", "t", "e", "r">>
                [] member.kind = "SetAccessor"
                     -> <<"s", "e", "t", "t", "e", "r">>
                [] member.kind = "ConstructSignature"
                     -> <<"c", "o", "n", "s", "t", "r", "u", "c", "t", "o", "r">>
                [] OTHER -> <<"m", "e", "m", "b", "e", "r">>
  IN abstractPrefix \o staticPrefix \o base

\* String.prototype.toLowerCase on the capitals the class names use
LowerFirst(name) ==
  IF name = <<>> THEN name
  ELSE <<IF name[1] = "K" THEN "k" ELSE IF name[1] = "I" THEN "i"
         ELSE name[1]>> \o Tail(name)

\* what the try block of generateClassMemberDoc appends: the checker finds
\* no symbol, or throws, or renders the member's type
MemberBody(member, jsDocObject) ==
  IF member.symbol.tag = "none" THEN <<>>
  ELSE IF member.symbol.tag = "throws" \/ member.symbol.typeString = Null
  THEN Unavailable
  ELSE IF member.kind = "MethodDeclaration"
  THEN SignatureLine \o Code(member.symbol.typeString) \o TwoNL
       \o generateParameters(member) \o generateJSDocTags(jsDocObject)
  ELSE TypeLine \o Code(member.symbol.typeString) \o TwoNL
       \o ExamplesBlock(jsDocObject.tags)

generateClassMemberDoc(member, isStatic, headingPrefix, className, sourceFile, repoUrl) ==
  LET memberName == IF member.name.text # <<>> THEN member.name.text
                    ELSE IF member.kind = "ConstructSignature"
                    THEN <<"n", "e", "w">> ELSE Unknown
      memberType == WithDeepLink(getMemberType(member, isStatic), repoUrl,
                                 sourceFile, member)
      prefix == IF isStatic THEN className ELSE LowerFirst(className)
      heading == prefix \o <<".">> \o memberName
      jsDocObject == extractJSDoc(member)
      summary == IF jsDocObject.comment # <<>>
                 THEN jsDocObject.comment \o TwoNL ELSE <<>>
  IN IF memberType = Thrown THEN Thrown
     ELSE headingPrefix \o <<HASH, SP>> \o heading \o Sep \o memberType
          \o TwoNL \o summary \o MemberBody(member, jsDocObject)

RECURSIVE ConcatMembers(_, _, _, _, _, _)
ConcatMembers(ms, isStatic, headingPrefix, className, sourceFile, repoUrl) ==
  IF ms = <<>> THEN <<>>
  ELSE Then(generateClassMemberDoc(Head(ms), isStatic, headingPrefix,
                                   className, sourceFile, repoUrl),
            ConcatMembers(Tail(ms), isStatic, headingPrefix, className,
                          sourceFile, repoUrl))

\* m.name?.getText() is the source text of the name node
IsPublicMember(m) ==
  ~StartsWith(m.name.text, <<"_">>) /\ m.kind # "Constructor"
IsStaticMember(m) == "StaticKeyword" \in m.modifiers
IsInstanceMember(m) == "StaticKeyword" \notin m.modifiers

\* the @param tags of the doc comments of all members, in member order
RECURSIVE ParamTagsOfMembers(_)
ParamTagsOfMembers(members) ==
  IF members = <<>> THEN <<>>
  ELSE TagsNamed(extractJSDoc(Head(members)).tags, "param")
       \o ParamTagsOfMembers(Tail(members))

\* the block made of the @param tags of every member of the class
ConstructorParametersOfMembers(members) ==
  IF ParamTagsOfMembers(members) # <<>>
  THEN ConstructorParametersHead
       \o ParamTagLines(ParamTagsOfMembers(members), <<COLON, SP>>) \o <<NL>>
  ELSE <<>>

ConstructorParameters(members) ==
  LET constructors == SelectSeq(members, LAMBDA m : m.kind = "Constructor")
      constructorJSDoc == IF constructors # <<>>
                          THEN extractJSDoc(constructors[1]) ELSE NoDoc
      paramTags == TagsNamed(constructorJSDoc.tags, "param")
  IN IF paramTags # <<>>
     THEN ConstructorParametersHead \o ParamTagLines(paramTags, <<COLON, SP>>)
          \o <<NL>>
     ELSE <<>>

RECURSIVE MembersAsDeclared(_, _, _, _, _)
MembersAsDeclared(ms, headingPrefix, className, sourceFile, repoUrl) ==
  IF ms = <<>> THEN <<>>
  ELSE Then(generateClassMemberDoc(Head(ms), IsStaticMember(Head(ms)),
                                   headingPrefix, className, sourceFile,
                                   repoUrl),
            MembersAsDeclared(Tail(ms), headingPrefix, className, sourceFile,
                              repoUrl))

\* generateClassDoc that renders the members in the order of declaration
generateClassDocAsDeclared(declaration, typeString, headingPrefix, className, sourceFile, repoUrl) ==
  IF declaration.kind = "VariableDeclaration"
  THEN TypeLine \o Code(typeString) \o TwoNL
  ELSE Then((IF declaration.typeParameters # <<>>
             THEN generateTypeParameters(declaration.typeParameters,
                                         extractJSDoc(declaration))
             ELSE <<>>)
            \o generateJSDocTags(extractJSDoc(declaration))
            \o ConstructorParameters(declaration.members),
            MembersAsDeclared(SelectSeq(declaration.members, IsPublicMember),
                              headingPrefix, className, sourceFile, repoUrl))

generateClassDoc(declaration, typeString, headingPrefix, className, sourceFile, repoUrl) ==
  IF declaration.kind = "VariableDeclaration"
  THEN TypeLine \o Code(typeString) \o TwoNL
  ELSE LET jsDoc == extractJSDoc(declaration)
           publicMembers == SelectSeq(declaration.members, IsPublicMember)
           staticMembers == SelectSeq(publicMembers, IsStaticMember)
           instanceMembers == SelectSeq(publicMembers, IsInstanceMember)
       IN Then((IF declaration.typeParameters # <<>>
                THEN generateTypeParameters(declaration.typeParameters, jsDoc)
                ELSE <<>>)
               \o generateJSDocTags(jsDoc)
               \o ConstructorParameters(declaration.members),
               Then(ConcatMembers(staticMembers, TRUE, headingPrefix,
                                  className, sourceFile, repoUrl),
                    ConcatMembers(instanceMembers, FALSE, headingPrefix,
                                  className, sourceFile, repoUrl)))

generateTypeSpecificDoc(declaration, typeString, headingPrefix, name, sourceFile, repoUrl, jsDocObject) ==
  IF typeString = Null \/ typeString = <<>> THEN Unavailable
  ELSE IF declaration.kind = "VariableDeclaration"
          /\ (Includes(typeString, Arrow) \/ StartsWith(typeString, <<"(">>))
  THEN generateFunctionDoc(declaration, typeString, jsDocObject)
  ELSE IF declaration.kind = "VariableDeclaration"
          /\ StartsWith(typeString, TypeofSp)
  THEN generateClassDoc(declaration, typeString, headingPrefix, name,
                        sourceFile, repoUrl)
  ELSE IF declaration.kind = "FunctionDeclaration"
  THEN generateFunctionDoc(declaration, typeString, jsDocObject)
  ELSE IF declaration.kind \in {"ClassDeclaration", "InterfaceDeclaration"}
  THEN generateClassDoc(declaration, typeString, headingPrefix, name,
                        sourceFile, repoUrl)
  ELSE IF declaration.kind = "TypeAliasDeclaration"
  THEN TypeLine
       \o Code(IF declaration.type # <<>> THEN declaration.type ELSE typeString)
       \o TwoNL
  ELSE ValueLine \o Code(typeString) \o TwoNL

\* the lookup that asks the resolved declaration first
SelectJSDocResolvedFirst(exportDeclaration, declaration) ==
  IF extractJSDoc(declaration).present
  THEN extractJSDoc(declaration) ELSE extractJSDoc(exportDeclaration)

\* extractJSDoc(exportDeclaration) || extractJSDoc(declaration)
SelectJSDoc(exportDeclaration, declaration) ==
  IF extractJSDoc(exportDeclaration).present
  THEN extractJSDoc(exportDeclaration) ELSE extractJSDoc(declaration)

generateSymbolDoc(name, symbol, headingPrefix, sourceFile, repoUrl) ==
  LET resolved == resolveSymbol(symbol)
      declaration == resolved.declaration
      typeInfo == getTypeInfo(resolved.originalSymbol, declaration)
      typeLabel == WithDeepLink(getTypeLabel(declaration, typeInfo), repoUrl,
                                sourceFile, declaration)
      jsDocObject == SelectJSDoc(resolved.exportDeclaration, declaration)
      summary == IF jsDocObject.comment # <<>>
                 THEN jsDocObject.comment \o TwoNL ELSE <<>>
  IN IF declaration.kind = "none"
     THEN headingPrefix \o <<SP>> \o name \o NoDeclaration
     ELSE IF typeLabel = Thrown THEN Thrown
     ELSE Then(headingPrefix \o <<SP>> \o name \o Sep \o typeLabel \o TwoNL
               \o summary,
               generateTypeSpecificDoc(declaration, typeInfo, headingPrefix,
                                       name, sourceFile, repoUrl, jsDocObject))

RECURSIVE ConcatSymbols(_, _, _, _)
ConcatSymbols(exports, headingPrefix, sourceFile, repoUrl) ==
  IF exports = <<>> THEN <<>>
  ELSE Then(generateSymbolDoc(Head(exports).name, Head(exports).symbol,
                              headingPrefix, sourceFile, repoUrl),
            ConcatSymbols(Tail(exports), headingPrefix, sourceFile, repoUrl))

\* The source files the oracle knows: "a" is a module whose export table is
\* `exports`, "b" is a file without exports; createProgram finds no source
\* file under any other path.  A result is the fragment, or the error thrown.
GoodPath == <<"a">>
generateMarkdownDoc(filePath, headingPrefix, repoUrl, exports) ==
  IF filePath # GoodPath
  THEN [threw |-> TRUE, output |-> <<>>, error |-> "No exports found",
        file |-> filePath]
  ELSE LET output == ConcatSymbols(exports, headingPrefix,
                                   [fileName |-> filePath], repoUrl)
       IN IF output = Thrown
          THEN [threw |-> TRUE, output |-> <<>>, error |-> "Command failed",
                file |-> filePath]
          ELSE [threw |-> FALSE, output |-> output]

\* ------------------------------------------------- what the oracle answers
Node(kind, line) ==
  [kind |-> kind, line |-> line, modifiers |-> {}, flags |-> {},
   jsDoc |-> <<>>, parent |-> NoNode, name |-> NoName,
   typeParameters |-> <<>>, parameters |-> <<>>, members |-> <<>>,
   type |-> <<>>, initializer |-> NoNode, expression |-> NoNode,
   declarationList |-> NoNode, heritageClauses |-> <<>>,
   symbol |-> NoSymbol]

Symbol(valueDeclaration, declarations, typeString) ==
  [tag |-> "symbol", flags |-> {}, valueDeclaration |-> valueDeclaration,
   declarations |-> declarations, typeString |-> typeString,
   aliased |-> NoSymbol]

\* a symbol of the value space, and one that only names a type
ValueSymbol(declaration, typeString) ==
  Symbol(declaration, <<declaration>>, typeString)
TypeSymbol(declaration, typeString) ==
  Symbol(NoNode, <<declaration>>, typeString)

JSDoc(comment, tags) == [present |-> TRUE, comment |-> comment, tags |-> tags]
\* an identifier: its source text, and the text the compiler keeps for it,
\* which has one more underscore when the name begins with two
escapeLeadingUnderscores(text) ==
  IF StartsWith(text, <<"_", "_">>) THEN <<"_">> \o text ELSE text
Name(text) ==
  [text |-> text, escapedText |-> escapeLeadingUnderscores(text)]
Tag(tagName, name, comment) ==
  [tagName |-> tagName, name |-> name, comment |-> comment]
Parameter(name, type, questionToken, initializer) ==
  [name |-> name, type |-> type, questionToken |-> questionToken,
   initializer |-> initializer]
TypeParameter(name, constraint, default) ==
  [name |-> name, constraint |-> constraint, default |-> default]

\* `const x = ...` or `let x = ...` in its declaration list and statement;
\* the doc comment written before the statement is attached to the statement
VariableDeclaration(line, isConstant, jsDoc, initializer) ==
  LET flags == IF isConstant THEN {"Const"} ELSE {}
      list == [Node("VariableDeclarationList", line) EXCEPT !.flags = flags]
      statement == [Node("VariableStatement", line) EXCEPT
                      !.jsDoc = jsDoc, !.declarationList = list]
  IN [Node("VariableDeclaration", line) EXCEPT
        !.initializer = initializer,
        !.parent = [list EXCEPT !.parent = statement]]

\* value `as` Type, where the checker answers symbol for the value
AsExpression(symbol) ==
  [Node("AsExpression", 0) EXCEPT
     !.expression = [Node("Identifier", 0) EXCEPT !.symbol = symbol]]

\* `export { x } from ...`, where the checker answers aliased for the alias
ExportSpecifier(line, aliased) ==
  [Symbol(Node("ExportSpecifier", line), <<Node("ExportSpecifier", line)>>,
          <<"a", "n", "y">>)
     EXCEPT !.flags = {"Alias"}, !.aliased = aliased]

\* a member of a class or an interface; the checker renders its type as n
Member(line, kind, name, modifiers) ==
  [Node(kind, line) EXCEPT
     !.name = name, !.modifiers = modifiers,
     !.symbol = IF name.text = <<>> THEN NoSymbol
                ELSE ValueSymbol(NoNode, <<"n">>)]

TNumber == <<"4", "2">>
TFunction == <<"(", "p", COLON, SP, "n", ")", SP, "=", ">", SP, "n">>
TParenthesized == <<"(", "n", ")", "[", "]">>
TTypeof == TypeofSp \o <<"K">>

FunctionTags ==
  << Tag("param", Name(<<"p">>), <<"P">>),
     Tag("returns", NoName, <<"R">>),
     Tag("throws", NoName, <<"E">>),
     Tag("example", NoName, <<"X">>) >>

\* /** F @param p P @returns R @throws E @example X */
\* export function f<T>(p: n, q?) {}
FunctionDeclaration ==
  [Node("FunctionDeclaration", 3) EXCEPT
     !.jsDoc = <<JSDoc(<<"F">>, FunctionTags)>>,
     !.typeParameters = <<TypeParameter(<<"T">>, <<>>, <<>>)>>,
     !.parameters = << Parameter(<<"p">>, <<"n">>, FALSE, FALSE),
                       Parameter(<<"q">>, <<>>, TRUE, FALSE) >>]

ClassMembers ==
  { Member(11, "PropertyDeclaration", Name(<<"m">>), {}),
    Member(12, "PropertyDeclaration", Name(<<"s">>), {"StaticKeyword"}),
    Member(13, "PropertyDeclaration", Name(<<"_", "p">>), {"PrivateKeyword"}),
    Member(14, "PropertyDeclaration", Name(<<"w">>), {"ProtectedKeyword"}),
    Member(15, "PropertyDeclaration",
           [text |-> <<"'", "_", "q", "'">>, escapedText |-> <<"_", "q">>], {}),
    Member(16, "IndexSignature", NoName, {}),
    [Member(17, "MethodDeclaration", Name(<<"t">>),
            {"StaticKeyword", "AbstractKeyword"})
       EXCEPT !.parameters = <<Parameter(<<"p">>, <<"n">>, FALSE, TRUE)>>],
    [Member(18, "Constructor", NoName, {})
       EXCEPT !.jsDoc = <<JSDoc(<<"N">>,
                                <<Tag("param", Name(<<"c">>), <<"Q">>)>>)>>] }

InterfaceMembers ==
  << Member(21, "PropertySignature", Name(<<"m">>), {}),
     Member(22, "ConstructSignature", NoName, {}),
     Member(23, "MethodSignature", Name(<<"_", "h">>), {}) >>

\* [abstract] class K [extends B] { members }
ClassDeclaration(modifiers, heritageClauses, members) ==
  [Node("ClassDeclaration", 10) EXCEPT
     !.modifiers = modifiers, !.heritageClauses = heritageClauses,
     !.members = members]

InterfaceDeclaration ==
  [Node("InterfaceDeclaration", 20) EXCEPT
     !.jsDoc = <<JSDoc(<<"J">>, <<>>)>>, !.members = InterfaceMembers]

TypeAliasDeclaration ==
  [Node("TypeAliasDeclaration", 30) EXCEPT
     !.type = <<"{", "a", COLON, SP, "n", "}">>]

\* an exported binding: the name and the symbol of the export table
Export(name, symbol) == [name |-> name, symbol |-> symbol]

\* variable declarations, with every rendered type and both kinds of binding
VariableExports ==
  { Export(<<"x">>,
           ValueSymbol(VariableDeclaration(1, isConstant, jsDoc, NoNode),
                       typeString)) :
      isConstant \in BOOLEAN,
      jsDoc \in {<<>>, <<JSDoc(<<"C">>, <<>>)>>},
      typeString \in {TNumber, TFunction, TParenthesized, TTypeof, Null} }

\* export default () => n: the export named default is declared by the
\* export assignment, and the checker renders the type of its expression
Default == <<"d", "e", "f", "a", "u", "l", "t">>
TArrow == <<"(", ")", SP, "=", ">", SP, "n">>
ExportAssignment == Node("ExportAssignment", 70)

DeclarationExports ==
  { Export(<<"f">>, ValueSymbol(FunctionDeclaration, TFunction)),
    Export(<<"f">>, ValueSymbol(FunctionDeclaration, Null)),
    Export(<<"I">>, TypeSymbol(InterfaceDeclaration, <<"I">>)),
    Export(<<"A">>, TypeSymbol(TypeAliasDeclaration, <<"A">>)),
    Export(<<"g">>, Symbol(NoNode, <<>>, <<"a", "n", "y">>)),
    Export(Default, ValueSymbol(ExportAssignment, TArrow)) }

\* the symbols of the value space: a function, a class, a variable
ValueTargets ==
  { ValueSymbol(FunctionDeclaration, TFunction),
    ValueSymbol(ClassDeclaration({"AbstractKeyword"}, <<>>, <<>>), TTypeof),
    ValueSymbol(VariableDeclaration(2, FALSE, <<JSDoc(<<"D">>, <<>>)>>, NoNode),
                TNumber) }

\* what checker.getAliasedSymbol answers for a re-export: a value, an
\* interface, a type alias, the unknown symbol, or it throws
AliasTargets ==
  ValueTargets \cup
  { TypeSymbol(InterfaceDeclaration, <<"I">>),
    TypeSymbol(TypeAliasDeclaration, <<"A">>),
    Symbol(NoNode, <<>>, <<"a", "n", "y">>),
    ThrowsSymbol }

\* what checker.getSymbolAtLocation answers for the value of a type
\* assertion: a value of this file, an imported binding (an alias symbol,
\* declared by its import specifier), nothing (the value is a literal), or
\* it throws
ExpressionTargets ==
  ValueTargets \cup
  { TypeSymbol(Node("ImportSpecifier", 0), TNumber),
    NoSymbol,
    ThrowsSymbol }

\* export { r } from './m'
ReExports == { Export(<<"r">>, ExportSpecifier(40, t)) : t \in AliasTargets }

\* [/** C */] export const y = value as Type, also with the doc comment
\* /** @example X */ that has no text of its own
AssertionExports ==
  { Export(<<"y">>,
           ValueSymbol(VariableDeclaration(50, TRUE, jsDoc, AsExpression(t)),
                       <<"U">>)) :
      t \in ExpressionTargets,
      jsDoc \in { <<>>, <<JSDoc(<<"C">>, <<>>)>>,
                  <<JSDoc(<<>>, <<Tag("example", NoName, <<"X">>)>>)>> } }

\* abstract class K {}
AbstractBase == ClassDeclaration({"AbstractKeyword"}, <<>>, <<>>)

\* sequences of n different members
MemberLists(n) ==
  { ms \in [1..n -> ClassMembers] :
      \A j, k \in 1..n : ms[j] = ms[k] => j = k }

\* export [abstract] class K { members }, and
\* export [abstract] class L extends K {}, K being abstract
ClassExports ==
  { Export(<<"K">>,
           ValueSymbol(ClassDeclaration(modifiers, <<>>, members), TTypeof)) :
      modifiers \in {{}, {"AbstractKeyword"}},
      members \in UNION { MemberLists(n) : n \in 0..MaxMembers } }
  \cup
  { Export(<<"L">>,
           ValueSymbol(ClassDeclaration(modifiers, <<AbstractBase>>, <<>>),
                       TypeofSp \o <<"L">>)) :
      modifiers \in {{}, {"AbstractKeyword"}} }

\* the k-th of the exports that surround the one under study
Filler(k) ==
  Export(<<"z", ToString(k)>>,
         ValueSymbol(VariableDeclaration(60 + k, TRUE, <<>>, NoNode), TNumber))

Fillers(n) == [k \in 1..n |-> Filler(k)]

\* the export tables the renderer is called with
RenderTables ==
  { <<e>> : e \in ClassExports }
  \cup
  UNION { { Fillers(n) \o <<e>>, <<e>> \o Fillers(n) } :
            e \in VariableExports \cup DeclarationExports \cup ReExports
                  \cup AssertionExports,
            n \in 0..(MaxExports - 1) }

Tracked == [status |-> 0, stdout |-> <<"s", "/", "a", NL>>]
Untracked == [status |-> 0, stdout |-> <<>>]
Failing == [status |-> 128, stdout |-> <<>>]

GitHubUrl == <<"h", COLON, "/", "/", "g", ".", "c", "/", "r">>
GitLabUrl == <<"h", COLON, "/", "/">> \o GitLab \o <<"/", "r", "/">>

\* the --repo-url option and what git answers for the source file
Environments ==
  { [repoUrl |-> Null, git |-> Tracked],
    [repoUrl |-> GitHubUrl, git |-> Tracked],
    [repoUrl |-> GitHubUrl, git |-> Untracked],
    [repoUrl |-> GitHubUrl, git |-> Failing],
    [repoUrl |-> GitLabUrl, git |-> Tracked] }

\* the heading prefix the renderer is called with
RenderPrefix == <<HASH, HASH, HASH>>

NoRender == [done |-> FALSE]

\* no call has returned
NoAnswer == [done |-> FALSE]
Returned(value) == [done |-> TRUE, value |-> value]

\* ====== state machine of updateReadme
\* The lines a document is made of before the first pass.
LineTemplates ==
  { <<"x">>,                                  \* ordinary text
    <<>>,                                     \* blank line
    <<HASH>>,                                 \* level-1 heading, empty title
    <<HASH, HASH, SP, "T">>,                  \* level-2 heading
    <<HASH, HASH, HASH, SP, "T">>,            \* level-3 heading
    <<PHRASE, SP, "a", COLON>>,               \* marker of source file a
    <<PHRASE, SP, "a">>,                      \* the same without the colon
    <<PHRASE, SP, "b", COLON>> }              \* marker of source file b

RECURSIVE JoinLines(_)
JoinLines(ls) ==
  IF ls = <<>> THEN <<>> ELSE Head(ls) \o <<NL>> \o JoinLines(Tail(ls))

Documents ==
  { JoinLines(ls) : ls \in UNION { [1..n -> LineTemplates] : n \in 1..MaxLines } }

\* a line of text written by hand, longer than the fragment of one constant
StaleLine == [k \in 1..MaxStale |-> "z"]

\* documents with a second marker in the region of the first, with and
\* without old text under it, then a level-2 heading and the text after it
NestedDocuments ==
  { JoinLines(<< <<"x">>, <<PHRASE, SP, "a", COLON>>,
                 <<"y">>, <<PHRASE, SP, "a", COLON>> >>
              \o stale \o << <<HASH, HASH, SP, "T">> >> \o after) :
      stale \in {<<>>, <<StaleLine>>}, after \in {<<>>, << <<"x">> >>} }

\* documents whose heading has two spaces or a tab after the hashes, with
\* the marker under it
LooseHeadingDocuments ==
  { JoinLines(<< <<HASH, HASH>> \o gap \o <<"T">>,
                 <<PHRASE, SP, "a", COLON>> >> \o after) :
      gap \in {<<SP, SP>>, <<TAB>>}, after \in {<<>>, << <<"x">> >>} }

\* export tables of source file a:
\*   /** C */ export const x = 42
\*   /** # a */ export const x = 42      (a doc comment that is a '#' line)
\*   export class K { m: n; static s: n }
ExportTables ==
  { << Export(<<"x">>,
              ValueSymbol(VariableDeclaration(1, TRUE, <<JSDoc(<<"C">>, <<>>)>>,
                                              NoNode), TNumber)) >>,
    << Export(<<"x">>,
              ValueSymbol(VariableDeclaration(1, TRUE,
                                              <<JSDoc(<<HASH, SP, "a">>, <<>>)>>,
                                              NoNode), TNumber)) >>,
    << Export(<<"K">>,
              ValueSymbol(ClassDeclaration({}, <<>>,
                            << Member(11, "PropertyDeclaration", Name(<<"m">>), {}),
                               Member(12, "PropertyDeclaration", Name(<<"s">>),
                                      {"StaticKeyword"}) >>),
                          TTypeof)) >> }

NoSplice == [done |-> FALSE]

Init ==
  /\ disk \in Documents \cup NestedDocuments \cup LooseHeadingDocuments
  /\ table \in ExportTables
  /\ pc = "start"
  /\ run = 1
  /\ readme = <<>>
  /\ updatedReadme = <<>>
  /\ matches = <<>>
  /\ i = 1
  /\ reads = 0
  /\ writes = 0
  /\ generated = 0
  /\ stdout = <<>>
  /\ stderr = <<>>
  /\ exitCode = Null
  /\ original = disk
  /\ firstOutput = Null
  /\ last = NoSplice
  /\ repo = Null
  /\ gitLsFiles = Tracked
  /\ rpc = "off"
  /\ cursor = 1
  /\ fragment = <<>>
  /\ calls = 0
  /\ firstFragment = Null
  /\ rendered = NoRender
  /\ fn = "none"
  /\ input = NoNode
  /\ walk = NoNode
  /\ answer = NoAnswer

Min(a, b) == IF a <= b THEN a ELSE b

\* What one iteration of the loop computes for match m: the values of the
\* code's locals, the generator's result and the working text after it.
SpliceOf(text, working, m, exports) ==
  LET fullMatchEnd == m.end
      precedingHeadingLevel == m.level
      beforeSearch == SubSeq(text, m.g3, m.end)
      sourceFile == SubSeq(text, m.pathFrom, m.pathTo)
      baseHeadingLevel == IF precedingHeadingLevel # 0
                          THEN precedingHeadingLevel ELSE 2
      contentStart == fullMatchEnd
      contentEnd == findNextHeadingBoundary(text, contentStart, baseHeadingLevel)
      headingPrefix == Hashes(baseHeadingLevel + 1)
      result == generateMarkdownDoc(sourceFile, headingPrefix, repo, exports)
      replacement == (IF precedingHeadingLevel # 0
                      THEN Hashes(precedingHeadingLevel) \o <<SP>> ELSE <<>>)
                     \o beforeSearch \o <<NL>> \o result.output
  IN [done |-> TRUE, match |-> m, sourceFile |-> sourceFile,
      baseHeadingLevel |-> baseHeadingLevel, contentStart |-> contentStart,
      contentEnd |-> contentEnd, headingPrefix |-> headingPrefix,
      threw |-> result.threw, newContent |-> result.output,
      error |-> IF result.threw THEN result.error ELSE "none",
      before |-> working,
      after |-> Substring(working, 0, Min(m.index, Len(working)))
                \o replacement \o SubstringFrom(working, contentEnd)]

RECURSIVE PassFrom(_, _, _, _, _)
\* the loop over the matches ms from the k-th on
PassFrom(text, working, ms, k, exports) ==
  IF k > Len(ms) THEN [status |-> "done", output |-> working]
  ELSE LET s == SpliceOf(text, working, ms[k], exports)
       IN IF s.threw THEN [status |-> "threw", output |-> text]
          ELSE PassFrom(text, s.after, ms, k + 1, exports)

\* updateReadme as a function of the document and the export table: how the
\* pass ends and what the file holds afterwards
updateReadme(text, exports) ==
  LET ms == Reverse(MatchAll(text))
  IN IF ms = <<>> THEN [status |-> "exited", output |-> text]
     ELSE PassFrom(text, text, ms, 1, exports)

\* Load without the zero-marker exit: the pass goes on to the loop
LoadWithoutExit ==
  /\ pc = "start"
  /\ readme' = disk
  /\ updatedReadme' = disk
  /\ reads' = reads + 1
  /\ matches' = Reverse(MatchAll(disk))
  /\ i' = 1
  /\ pc' = "loop"
  /\ UNCHANGED <<disk, table, run, writes, generated, stdout, stderr,
                 exitCode, original, firstOutput, last>>
  /\ UNCHANGED rvars
  /\ UNCHANGED uvars

\* readFileSync, the marker regex, matchAll and the zero-marker exit
Load ==
  /\ pc = "start"
  /\ readme' = disk
  /\ updatedReadme' = disk
  /\ reads' = reads + 1
  /\ matches' = Reverse(MatchAll(disk))
  /\ i' = 1
  /\ IF matches' = <<>>
     THEN /\ stderr' = <<[text |-> "Could not find any markers",
                          searchPhrase |-> PHRASE, readmePath |-> "README"]>>
          /\ exitCode' = 1
          /\ pc' = "exited"
     ELSE /\ pc' = "loop"
          /\ UNCHANGED <<stderr, exitCode>>
  /\ UNCHANGED <<disk, table, run, writes, generated, stdout, original,
                 firstOutput, last>>
  /\ UNCHANGED rvars
  /\ UNCHANGED uvars

\* Splice that writes the working text to the file in every iteration
SpliceWritingThrough ==
  /\ pc = "loop"
  /\ i <= Len(matches)
  /\ \E s \in {SpliceOf(readme, updatedReadme, matches[i], table)} :
        /\ last' = s
        /\ stdout' = Append(stdout, [text |-> "Generating docs",
                                     sourceFile |-> s.sourceFile,
                                     level |-> s.baseHeadingLevel + 1])
        /\ IF s.threw
           THEN /\ pc' = "threw"
                /\ stderr' = <<[text |-> s.error,
                                file |-> s.sourceFile]>>
                /\ exitCode' = 1
                /\ UNCHANGED <<updatedReadme, i, generated, disk, writes>>
           ELSE /\ updatedReadme' = s.after
                /\ disk' = s.after
                /\ writes' = writes + 1
                /\ i' = i + 1
                /\ generated' = generated + 1
                /\ UNCHANGED <<pc, stderr, exitCode>>
  /\ UNCHANGED <<table, run, readme, matches, reads, original, firstOutput>>
  /\ UNCHANGED rvars
  /\ UNCHANGED uvars

\* one iteration of the for loop over the matches
Splice ==
  /\ pc = "loop"
  /\ i <= Len(matches)
  /\ \E s \in {SpliceOf(readme, updatedReadme, matches[i], table)} :
        /\ last' = s
        /\ stdout' = Append(stdout, [text |-> "Generating docs",
                                     sourceFile |-> s.sourceFile,
                                     level |-> s.baseHeadingLevel + 1])
        /\ IF s.threw
           THEN /\ pc' = "threw"
                /\ stderr' = <<[text |-> s.error,
                                file |-> s.sourceFile]>>
                /\ exitCode' = 1
                /\ UNCHANGED <<updatedReadme, i, generated>>
           ELSE /\ updatedReadme' = s.after
                /\ i' = i + 1
                /\ generated' = generated + 1
                /\ UNCHANGED <<pc, stderr, exitCode>>
  /\ UNCHANGED <<disk, table, run, readme, matches, reads, writes, original,
                 firstOutput>>
  /\ UNCHANGED rvars
  /\ UNCHANGED uvars

\* Write that does not wait for the loop to run out
WriteEarly ==
  /\ pc = "loop"
  /\ disk' = updatedReadme
  /\ writes' = writes + 1
  /\ stdout' = Append(stdout, [text |-> "Updated documentation",
                               count |-> Len(matches), readmePath |-> "README"])
  /\ exitCode' = 0
  /\ pc' = "done"
  /\ firstOutput' = IF run = 1 THEN updatedReadme ELSE firstOutput
  /\ UNCHANGED <<table, run, readme, updatedReadme, matches, i, reads,
                 generated, stderr, original, last>>
  /\ UNCHANGED rvars
  /\ UNCHANGED uvars

\* writeFileSync and the summary, once the loop has run out
Write ==
  /\ pc = "loop"
  /\ i > Len(matches)
  /\ disk' = updatedReadme
  /\ writes' = writes + 1
  /\ stdout' = Append(stdout, [text |-> "Updated documentation",
                               count |-> Len(matches), readmePath |-> "README"])
  /\ exitCode' = 0
  /\ pc' = "done"
  /\ firstOutput' = IF run = 1 THEN updatedReadme ELSE firstOutput
  /\ UNCHANGED <<table, run, readme, updatedReadme, matches, i, reads,
                 generated, stderr, original, last>>
  /\ UNCHANGED rvars
  /\ UNCHANGED uvars

\* the command is run again on the file the previous run wrote
Rerun ==
  /\ pc = "done"
  /\ run < MaxRuns
  /\ run' = run + 1
  /\ pc' = "start"
  /\ readme' = <<>>
  /\ updatedReadme' = <<>>
  /\ matches' = <<>>
  /\ i' = 1
  /\ reads' = 0
  /\ writes' = 0
  /\ generated' = 0
  /\ stdout' = <<>>
  /\ stderr' = <<>>
  /\ exitCode' = Null
  /\ last' = NoSplice
  /\ UNCHANGED <<disk, table, original, firstOutput>>
  /\ UNCHANGED rvars
  /\ UNCHANGED uvars

Next == Load \/ Splice \/ Write \/ Rerun

Spec == Init /\ [][Next]_vars

\* ====== state machine of generateMarkdownDoc, called as a library function
RenderInit ==
  /\ table \in RenderTables
  /\ \E e \in Environments : repo = e.repoUrl /\ gitLsFiles = e.git
  /\ rpc = "idle"
  /\ cursor = 1
  /\ fragment = <<>>
  /\ calls = 0
  /\ firstFragment = Null
  /\ rendered = NoRender
  /\ fn = "none"
  /\ input = NoNode
  /\ walk = NoNode
  /\ answer = NoAnswer
  /\ disk = <<>>
  /\ pc = "off"
  /\ run = 1
  /\ readme = <<>>
  /\ updatedReadme = <<>>
  /\ matches = <<>>
  /\ i = 1
  /\ reads = 0
  /\ writes = 0
  /\ generated = 0
  /\ stdout = <<>>
  /\ stderr = <<>>
  /\ exitCode = Null
  /\ original = <<>>
  /\ firstOutput = Null
  /\ last = NoSplice

\* Call that goes on with the output an earlier call left behind
CallKeepingOutput ==
  /\ rpc = "idle"
  /\ cursor' = 1
  /\ rpc' = "exports"
  /\ rendered' = NoRender
  /\ UNCHANGED <<fragment, table, repo, gitLsFiles, calls, firstFragment>>
  /\ UNCHANGED svars
  /\ UNCHANGED uvars

\* createProgram, the export table and `let output = ''`
Call ==
  /\ rpc = "idle"
  /\ fragment' = <<>>
  /\ cursor' = 1
  /\ rpc' = "exports"
  /\ rendered' = NoRender
  /\ UNCHANGED <<table, repo, gitLsFiles, calls, firstFragment>>
  /\ UNCHANGED svars
  /\ UNCHANGED uvars

\* one iteration of the loop over the export table
RenderSymbol ==
  /\ rpc = "exports"
  /\ cursor <= Len(table)
  /\ LET name == table[cursor].name
         symbol == table[cursor].symbol
         doc == generateSymbolDoc(name, symbol, RenderPrefix,
                                  [fileName |-> GoodPath], repo)
     IN /\ rendered' = [done |-> TRUE, name |-> name, symbol |-> symbol,
                        resolved |-> resolveSymbol(symbol),
                        threw |-> doc = Thrown,
                        doc |-> IF doc = Thrown THEN <<>> ELSE doc,
                        before |-> fragment]
        /\ IF doc = Thrown
           THEN /\ rpc' = "threw"
                /\ UNCHANGED <<fragment, cursor>>
           ELSE /\ fragment' = fragment \o doc
                /\ cursor' = cursor + 1
                /\ UNCHANGED rpc
  /\ UNCHANGED <<table, repo, gitLsFiles, calls, firstFragment>>
  /\ UNCHANGED svars
  /\ UNCHANGED uvars

\* return output
Return ==
  /\ rpc = "exports"
  /\ cursor > Len(table)
  /\ rpc' = "returned"
  /\ calls' = calls + 1
  /\ firstFragment' = IF calls = 0 THEN fragment ELSE firstFragment
  /\ UNCHANGED <<table, repo, gitLsFiles, cursor, fragment, rendered>>
  /\ UNCHANGED svars
  /\ UNCHANGED uvars

\* the caller calls again, with the same file and the same oracles
CallAgain ==
  /\ rpc = "returned"
  /\ calls < MaxCalls
  /\ rpc' = "idle"
  /\ UNCHANGED <<table, repo, gitLsFiles, cursor, fragment, calls,
                 firstFragment, rendered>>
  /\ UNCHANGED svars
  /\ UNCHANGED uvars

RenderNext == Call \/ RenderSymbol \/ Return \/ CallAgain

RenderSpec == RenderInit /\ [][RenderNext]_vars

\* ====== the functions of the renderer, each called on its own
Flags(isConstant) == IF isConstant THEN {"Const"} ELSE {}

\* the nodes around the statement or loop that holds a declaration list
RECURSIVE Enclosing(_, _)
Enclosing(depth, isConstant) ==
  IF depth = 0 THEN NoNode
  ELSE [Node("Block", 0) EXCEPT
          !.flags = Flags(isConstant),
          !.parent = Enclosing(depth - 1, isConstant)]

\* a variable declaration in its list, the list in a variable statement or
\* in the head of a for loop, with every flag the walk may meet
Declarations ==
  { LET list == [Node("VariableDeclarationList", 1) EXCEPT
                   !.flags = Flags(onList)]
        holder == [Node(kind, 1) EXCEPT
                     !.flags = Flags(onHolder),
                     !.declarationList =
                        IF kind = "VariableStatement" THEN list ELSE NoNode,
                     !.parent = Enclosing(depth, above)]
    IN [Node("VariableDeclaration", 1) EXCEPT
          !.flags = Flags(onDeclaration),
          !.parent = [list EXCEPT !.parent = holder]] :
      onDeclaration \in BOOLEAN, onList \in BOOLEAN, onHolder \in BOOLEAN,
      above \in BOOLEAN, kind \in {"VariableStatement", "ForOfStatement"},
      depth \in 0..MaxDepth }

\* the sequences of at most n different elements of s
Lists(s, n) ==
  UNION { { q \in [1..k -> s] : \A x, y \in 1..k : q[x] = q[y] => x = y } :
          k \in 0..n }

\* the sequences of at most n elements of s
Sequences(s, n) == UNION { [1..k -> s] : k \in 0..n }

\* the doc comments with at most MaxTags of the given tags, or none at all
DocComments(tags) ==
  {<<>>} \cup { <<JSDoc(<<>>, ts)>> : ts \in Sequences(tags, MaxTags) }

ParameterNames == { <<"a">>, <<"b">>, <<"_", "_", "_", "a">> }

ParamTags ==
  { Tag("param", Name(<<"a">>), <<"A">>),
    Tag("param", Name(<<"a">>), <<"Z">>),
    Tag("param", Name(<<"a">>), <<>>),
    Tag("param", Name(<<"b">>), <<"B">>),
    Tag("param", Name(<<"c">>), <<"C">>),
    Tag("param", Name(<<"_", "_", "a">>), <<"U">>),
    Tag("returns", NoName, <<"R">>) }

\* methods f(a, b) with the doc comments that may stand before them
ParameterDeclarations ==
  { [Node("MethodDeclaration", 1) EXCEPT
       !.jsDoc = jsDoc,
       !.parameters = [k \in DOMAIN names |->
                         Parameter(names[k], <<"n">>, FALSE, FALSE)]] :
      names \in Lists(ParameterNames, MaxParams),
      jsDoc \in DocComments(ParamTags) }

TypeParameterNames == { <<"T">>, <<"U">>, <<"V">> }

TemplateTags ==
  { Tag("template", Name(<<"T">>), <<"X">>),
    Tag("template", Name(<<"U">>), <<"-", SP, "Y">>),
    Tag("template", Name(<<"U">>), <<"-", SP, "-", SP, "W">>),
    Tag("template", Name(<<"T">>), <<>>),
    Tag("param", Name(<<"T">>), <<"A">>) }

\* <T, U> with the doc comment, if any, of the declaration
TypeParameterCalls ==
  { [typeParameters |-> [k \in DOMAIN names |->
                           TypeParameter(names[k], <<>>, <<>>)],
     jsDoc |-> IF jsDoc = <<>> THEN NoDoc ELSE jsDoc[1]] :
      names \in Lists(TypeParameterNames, MaxParams),
      jsDoc \in DocComments(TemplateTags) }

ClassTags ==
  { Tag("param", Name(<<"k">>), <<"K">>), Tag("example", NoName, <<"X">>) }

ConstructorTags ==
  { Tag("param", Name(<<"c">>), <<"Q">>),
    Tag("param", Name(<<"d">>), <<>>),
    Tag("returns", NoName, <<"R">>) }

\* a class without a constructor, or with a constructor and its doc comment
Constructors ==
  {<<>>}
  \cup { <<[Member(18, "Constructor", NoName, {}) EXCEPT !.jsDoc = jsDoc]>> :
           jsDoc \in DocComments(ConstructorTags) }

\* /** @param p P */ m(p: n) {}
DocumentedMethod ==
  [Member(11, "MethodDeclaration", Name(<<"m">>), {}) EXCEPT
     !.jsDoc = <<JSDoc(<<>>, <<Tag("param", Name(<<"p">>), <<"P">>)>>)>>,
     !.parameters = <<Parameter(<<"p">>, <<"n">>, FALSE, FALSE)>>]

\* /** S */ t = 1, where the checker throws when asked for the type of t
ThrowingMember ==
  [Member(12, "PropertyDeclaration", Name(<<"t">>), {}) EXCEPT
     !.jsDoc = <<JSDoc(<<"S">>, <<>>)>>, !.symbol = ThrowsSymbol]

\* /** S */ u = 1, where the checker knows no symbol for the name u
UnknownMember ==
  [Member(13, "PropertyDeclaration", Name(<<"u">>), {}) EXCEPT
     !.jsDoc = <<JSDoc(<<"S">>, <<>>)>>, !.symbol = NoSymbol]

MemberChoices ==
  { <<>>, <<DocumentedMethod>>,
    <<ThrowingMember, DocumentedMethod>>, <<DocumentedMethod, ThrowingMember>>,
    <<UnknownMember, DocumentedMethod>>, <<DocumentedMethod, UnknownMember>> }

\* [/** class doc */] class K { [members] [constructor] }
DocumentedClasses ==
  { [ClassDeclaration({}, <<>>, members \o constructors) EXCEPT
       !.jsDoc = jsDoc] :
      jsDoc \in DocComments(ClassTags),
      members \in MemberChoices,
      constructors \in Constructors }

\* the calls that are made: the function and its argument
UnitCalls ==
  { [fn |-> "isConst", input |-> d] : d \in Declarations }
  \cup
  { [fn |-> "generateParameters", input |-> d] : d \in ParameterDeclarations }
  \cup
  { [fn |-> "generateTypeParameters", input |-> c] : c \in TypeParameterCalls }
  \cup
  { [fn |-> "generateClassDoc", input |-> d] : d \in DocumentedClasses }

UnitInit ==
  /\ \E c \in UnitCalls : fn = c.fn /\ input = c.input /\ walk = c.input
  /\ answer = NoAnswer
  /\ table = <<>>
  /\ repo = Null
  /\ gitLsFiles = Tracked
  /\ rpc = "off"
  /\ cursor = 1
  /\ fragment = <<>>
  /\ calls = 0
  /\ firstFragment = Null
  /\ rendered = NoRender
  /\ disk = <<>>
  /\ pc = "off"
  /\ run = 1
  /\ readme = <<>>
  /\ updatedReadme = <<>>
  /\ matches = <<>>
  /\ i = 1
  /\ reads = 0
  /\ writes = 0
  /\ generated = 0
  /\ stdout = <<>>
  /\ stderr = <<>>
  /\ exitCode = Null
  /\ original = <<>>
  /\ firstOutput = Null
  /\ last = NoSplice

\* an iteration of isConst's loop that goes on past a variable statement
IsConstStepPastStatement ==
  /\ fn = "isConst"
  /\ ~answer.done
  /\ IF walk.kind = "none"
     THEN answer' = Returned(FALSE) /\ UNCHANGED walk
     ELSE IF "Const" \in walk.flags
     THEN answer' = Returned(TRUE) /\ UNCHANGED walk
     ELSE walk' = walk.parent /\ UNCHANGED answer
  /\ UNCHANGED <<table, fn, input>>
  /\ UNCHANGED svars
  /\ UNCHANGED rvars

\* one iteration of `while (node)` in isConst, or the return behind the loop
IsConstStep ==
  /\ fn = "isConst"
  /\ ~answer.done
  /\ IF walk.kind = "none"
     THEN answer' = Returned(FALSE) /\ UNCHANGED walk
     ELSE IF "Const" \in walk.flags
     THEN answer' = Returned(TRUE) /\ UNCHANGED walk
     ELSE IF walk.kind = "VariableStatement"
     THEN /\ answer' = Returned(/\ walk.declarationList.kind # "none"
                                /\ "Const" \in walk.declarationList.flags)
          /\ UNCHANGED walk
     ELSE walk' = walk.parent /\ UNCHANGED answer
  /\ UNCHANGED <<table, fn, input>>
  /\ UNCHANGED svars
  /\ UNCHANGED rvars

\* a call of generateParameters
GenerateParameters ==
  /\ fn = "generateParameters"
  /\ ~answer.done
  /\ answer' = Returned(generateParameters(input))
  /\ UNCHANGED <<table, fn, input, walk>>
  /\ UNCHANGED svars
  /\ UNCHANGED rvars

\* a call of generateTypeParameters
GenerateTypeParameters ==
  /\ fn = "generateTypeParameters"
  /\ ~answer.done
  /\ answer' = Returned(generateTypeParameters(input.typeParameters,
                                               input.jsDoc))
  /\ UNCHANGED <<table, fn, input, walk>>
  /\ UNCHANGED svars
  /\ UNCHANGED rvars

\* a call of generateClassDoc for the class K
GenerateClassDoc ==
  /\ fn = "generateClassDoc"
  /\ ~answer.done
  /\ answer' = Returned(generateClassDoc(input, TTypeof, RenderPrefix, <<"K">>,
                                         [fileName |-> GoodPath], repo))
  /\ UNCHANGED <<table, fn, input, walk>>
  /\ UNCHANGED svars
  /\ UNCHANGED rvars

UnitNext ==
  \/ IsConstStep
  \/ GenerateParameters
  \/ GenerateTypeParameters
  \/ GenerateClassDoc

\* the calls are sequential code: a step that can be taken is taken
UnitSpec == UnitInit /\ [][UnitNext]_vars /\ WF_vars(UnitNext)

\* ====== properties
\* ---- reading a text the way the specification describes it
RECURSIVE LineStartOf(_, _)
\* start of the line that holds position p
LineStartOf(t, p) == IF AtLineStart(t, p) THEN p ELSE LineStartOf(t, p - 1)

HashRun(t, p) == SkipIn(t, p, {HASH}) - p

\* a line of 1 to 6 '#' followed by whitespace, the end of the line included
IsHeadingLine(t, p) ==
  /\ AtLineStart(t, p)
  /\ HashRun(t, p) \in 1..6
  /\ p + HashRun(t, p) <= Len(t)
  /\ t[p + HashRun(t, p)] \in WhiteSpace

\* a heading line whose '#' are followed by a blank on the same line
IsTitledHeadingLine(t, p) ==
  IsHeadingLine(t, p) /\ t[p + HashRun(t, p)] \in {SP, TAB}

\* a marker line: the search phrase at the start of a line, then a path
IsMarkerLine(t, p) ==
  /\ AtLineStart(t, p)
  /\ t[p] = PHRASE
  /\ LET s == SkipIn(t, p + 1, LeadChars)
     IN s <= Len(t) /\ t[s] \notin TrailChars \cup {NL}

MarkerLines(t) == {p \in 1..Len(t) : IsMarkerLine(t, p)}

\* the line directly before the marker line of match m
PrecedingLine(t, m) == LineStartOf(t, m.marker - 1)

\* offset of the first character after the line that starts at p
AfterLine(t, p) == Min(SkipNotIn(t, p, {NL}), Len(t))

\* title lines of a fragment: '#' lines that hold the middle dot
TitleLines(t) ==
  {p \in 1..Len(t) :
     /\ AtLineStart(t, p)
     /\ t[p] = HASH
     /\ \E q \in p..(SkipNotIn(t, p, {NL}) - 1) : t[q] = MIDDOT}

\* a member's title names it Class.member
IsMemberTitle(t, p) ==
  \E q \in p..(SkipNotIn(t, p, {MIDDOT}) - 1) : t[q] = "."

Spliced == last.done /\ ~last.threw

\* C1: running updateReadme a second time on the file the first run wrote,
\* with the same source files, leaves the document as the first run wrote it.
C1_Idempotent == run = 2 => disk = firstOutput

\* C2: a successful pass finds and replaces one region per marker line of
\* the document, and its summary reports that number.
C2_EveryMarkerReplaced ==
  pc = "done" =>
    /\ Len(matches) = Cardinality(MarkerLines(readme))
    /\ generated = Cardinality(MarkerLines(readme))
    /\ stdout[Len(stdout)].count = Cardinality(MarkerLines(readme))

\* C3: when a match is spliced, match.index and contentEnd designate in the
\* working text the characters they designate in the original: the working
\* text up to contentEnd is still the original text, and every replacement
\* applied so far (to the matches further down the document) began at or
\* after contentEnd, so none of them moved the text that contentEnd points at.
C3_OffsetsStillValid ==
  last.done =>
    /\ Len(last.before) >= last.contentEnd
    /\ Substring(last.before, 0, last.contentEnd)
         = Substring(readme, 0, last.contentEnd)
    /\ \A j \in 1..Len(matches) :
         matches[j].index > last.match.index
           => matches[j].index >= last.contentEnd

\* C4: when the document holds no match of the marker regex, the pass
\* reports the phrase and the file on stderr, exits with code 1, calls the
\* generator never and leaves the file as it was.
C4_ZeroMarkersTerminate ==
  (pc # "start" /\ matches = <<>>) =>
    /\ pc = "exited"
    /\ exitCode = 1
    /\ stderr = <<[text |-> "Could not find any markers",
                   searchPhrase |-> PHRASE, readmePath |-> "README"]>>
    /\ stdout = <<>>
    /\ generated = 0
    /\ writes = 0
    /\ disk = readme
    /\ (run = 1 => disk = original)

\* a document that holds the search phrase and still no match
C4_Witness ==
  /\ pc = "exited"
  /\ matches = <<>>
  /\ MarkerLines(readme) # {}

\* C5: when generateMarkdownDoc throws for a marker, the error leaves
\* updateReadme (naming the source file), the file is not written and holds
\* what was loaded, also when other markers were generated before.
C5_AllOrNothing ==
  pc = "threw" =>
    /\ last.done /\ last.threw
    /\ stderr = <<[text |-> "No exports found", file |-> last.sourceFile]>>
    /\ exitCode = 1
    /\ writes = 0
    /\ disk = readme
    /\ (run = 1 => disk = original)

\* the second marker processed throws after the first was generated
C5_Witness ==
  /\ pc = "threw"
  /\ generated >= 1
  /\ updatedReadme # readme

\* C6: the file is written at most once in a run, and only after every
\* match has been generated and spliced; it is read once, at the start.
C6_SingleWriteAtEnd ==
  /\ writes <= 1
  /\ reads = (IF pc = "start" THEN 0 ELSE 1)
  /\ (writes = 1 =>
        /\ pc = "done"
        /\ i = Len(matches) + 1
        /\ generated = Len(matches)
        /\ disk = updatedReadme)
  /\ ((writes = 0 /\ pc # "start") => disk = readme)

\* a pass over two markers has written its result
C6_Witness ==
  /\ pc = "done"
  /\ writes = 1
  /\ generated = 2
  /\ disk # readme

\* texts a hand puts into a marked region: a paragraph, a paragraph and a
\* further marker, a heading deeper than any base level of the documents
HandEdits ==
  { <<"y", NL>>,
    <<"y", NL, PHRASE, SP, "a", COLON, NL>>,
    <<HASH, HASH, HASH, HASH, SP, "T", NL>> }

\* the document with the region of match m holding `edit` instead
Twin(text, m, edit) ==
  LET base == IF m.level # 0 THEN m.level ELSE 2
  IN Substring(text, 0, m.end) \o edit
     \o SubstringFrom(text, findNextHeadingBoundary(text, m.end, base))

\* in Twin(text, m, edit) the marker is matched as in text and its region
\* is exactly `edit`
IsHandEdit(text, m, edit) ==
  LET base == IF m.level # 0 THEN m.level ELSE 2
      twin == Twin(text, m, edit)
      tm == MatchAt(twin, m.index + 1)
  IN /\ tm.ok /\ tm.end = m.end /\ tm.level = m.level
     /\ \E j \in 1..Len(MatchAll(twin)) : MatchAll(twin)[j] = tm
     /\ findNextHeadingBoundary(twin, m.end, base) = m.end + Len(edit)

\* C7: two documents that differ only in the text of one marker's region
\* give the same output document.
C7_HandEditsDoNotSurvive ==
  (pc = "done" /\ run = 1) =>
    \A k \in 1..Len(matches) : \A edit \in HandEdits :
      (/\ IsHandEdit(readme, matches[k], edit)
       /\ updateReadme(Twin(readme, matches[k], edit), table).status = "done")
      => updateReadme(Twin(readme, matches[k], edit), table).output = disk

\* C8: under a marker line directly preceded by a heading line of level L,
\* the title lines of symbols carry L+1 '#' and those of members L+2.
C8_HeadingDepth ==
  (Spliced /\ IsTitledHeadingLine(readme, PrecedingLine(readme, last.match))) =>
    LET L == HashRun(readme, PrecedingLine(readme, last.match))
    IN \A p \in TitleLines(last.newContent) :
         HashRun(last.newContent, p)
           = (IF IsMemberTitle(last.newContent, p) THEN L + 2 ELSE L + 1)

\* C9: under a marker line whose preceding line is no heading line, the base
\* level is 2 and the symbols' title lines carry three '#'.
C9_DefaultBaseLevel ==
  (Spliced /\ ~IsHeadingLine(readme, PrecedingLine(readme, last.match))) =>
    /\ last.baseHeadingLevel = 2
    /\ last.headingPrefix = Hashes(3)
    /\ \A p \in TitleLines(last.newContent) :
         ~IsMemberTitle(last.newContent, p)
           => HashRun(last.newContent, p) = 3

\* offsets of the heading lines of level <= maxLevel at or after offset from
BoundaryHeadings(t, from, maxLevel) ==
  {q \in from..(Len(t) - 1) :
     IsHeadingLine(t, q + 1) /\ HashRun(t, q + 1) <= maxLevel}

\* C10: the replaced region starts right after the marker line and ends at
\* the first following heading line of level <= the base level, or at the
\* end of the document; that heading and the text after it are kept (kept
\* is the text the splice leaves behind the replacement).
C10_RegionBoundary ==
  Spliced =>
    LET cs == AfterLine(readme, last.match.marker)
        bs == BoundaryHeadings(readme, cs, last.baseHeadingLevel)
        kept == SubstringFrom(last.before, last.contentEnd)
    IN /\ last.contentStart = cs
       /\ IF bs = {}
          THEN /\ last.contentEnd = Len(readme)
               /\ kept = <<>>
          ELSE /\ last.contentEnd \in bs
               /\ \A q \in bs : last.contentEnd <= q
               /\ IsHeadingLine(kept, 1)
               /\ HashRun(kept, 1) = HashRun(readme, last.contentEnd + 1)

\* ---- reading a fragment the way the specification describes it
LFunction == <<"f", "u", "n", "c", "t", "i", "o", "n">>
LClass == <<"c", "l", "a", "s", "s">>
LAbstractClass == <<"a", "b", "s", "t", "r", "a", "c", "t", SP>> \o LClass
LConstant == <<"c", "o", "n", "s", "t", "a", "n", "t">>
LVariable == <<"v", "a", "r", "i", "a", "b", "l", "e">>

\* generateSymbolDoc has returned a fragment for a symbol with a declaration
Rendered ==
  rendered.done /\ ~rendered.threw
  /\ rendered.resolved.declaration.kind # "none"

\* the first line of a text
FirstLine(t) == SubSeq(t, 1, SkipNotIn(t, 1, {NL}) - 1)

\* a kind label without the link around it
PlainLabel(l) ==
  IF l # <<>> /\ l[1] = "[" THEN SubSeq(l, 2, SkipNotIn(l, 1, {"]"}) - 1)
  ELSE l

\* the kind label of the title line `prefix name . label`
TitleLabel(doc, prefix, name) ==
  PlainLabel(SubSeq(FirstLine(doc), Len(prefix) + Len(name) + 5,
                    Len(FirstLine(doc))))

\* the kind label of the fragment rendered last
LabelRendered == TitleLabel(rendered.doc, RenderPrefix, rendered.name)

\* the declaration and the rendered type the label was chosen for
DeclarationRendered == rendered.resolved.declaration
TypeRendered == rendered.resolved.originalSymbol.typeString

HasCallShape(t) ==
  t # Null /\ t # <<>>
  /\ (t[1] = "(" \/ \E k \in 1..(Len(t) - 1) : t[k] = "=" /\ t[k + 1] = ">")

HasTypeofShape(t) ==
  t # Null /\ Len(t) >= 7 /\ SubSeq(t, 1, 7) = <<"t", "y", "p", "e", "o", "f", SP>>

\* C11: a variable declaration whose rendered type contains '=>' or starts
\* with '(' is labelled function, const or not; constant and variable are
\* the labels only when neither that test nor the 'typeof ' test applies.
C11_CallShapeBeforeConst ==
  (Rendered /\ DeclarationRendered.kind = "VariableDeclaration") =>
    /\ HasCallShape(TypeRendered) => LabelRendered = LFunction
    /\ LabelRendered \in {LConstant, LVariable} =>
          ~HasCallShape(TypeRendered) /\ ~HasTypeofShape(TypeRendered)
    /\ (~HasCallShape(TypeRendered) /\ ~HasTypeofShape(TypeRendered)) =>
          LabelRendered \in {LConstant, LVariable}

\* a const binding of an arrow function has been labelled function
C11_Witness ==
  /\ Rendered
  /\ DeclarationRendered.kind = "VariableDeclaration"
  /\ "Const" \in DeclarationRendered.parent.flags
  /\ TypeRendered = TFunction
  /\ LabelRendered = LFunction


\* C12: a class declaration is labelled abstract class exactly when it
\* carries the abstract modifier, and class otherwise, also when the class it
\* extends is abstract.
C12_AbstractLabel ==
  (Rendered /\ DeclarationRendered.kind = "ClassDeclaration") =>
    /\ LabelRendered = LAbstractClass
          <=> "AbstractKeyword" \in DeclarationRendered.modifiers
    /\ "AbstractKeyword" \notin DeclarationRendered.modifiers
          => LabelRendered = LClass

\* a concrete class derived from an abstract class has been labelled class
C12_Witness ==
  /\ Rendered
  /\ DeclarationRendered.kind = "ClassDeclaration"
  /\ DeclarationRendered.heritageClauses # <<>>
  /\ "AbstractKeyword" \in DeclarationRendered.heritageClauses[1].modifiers
  /\ "AbstractKeyword" \notin DeclarationRendered.modifiers
  /\ LabelRendered = LClass

\* the lines of a text that start with pre, in order
RECURSIVE LinesStarting(_, _, _)
LinesStarting(t, p, pre) ==
  IF p > Len(t) THEN <<>>
  ELSE LET e == SkipNotIn(t, p, {NL})
           line == SubSeq(t, p, e - 1)
       IN (IF StartsWith(line, pre) THEN <<line>> ELSE <<>>)
          \o LinesStarting(t, e + 1, pre)

\* the title lines of the member sub-fragments of a fragment
MemberTitles(doc, prefix) == LinesStarting(doc, 1, prefix \o <<HASH, SP>>)

\* the name of a member begins with an underscore
IsUnderscored(m) ==
  m.name.escapedText # <<>> /\ m.name.escapedText[1] = "_"

\* the members the specification keeps: not underscored, not the constructor
KeptMembers(members) ==
  SelectSeq(members, LAMBDA m : ~IsUnderscored(m) /\ m.kind # "Constructor")

\* a class or an interface with its members has been rendered
ClassRendered ==
  /\ Rendered
  /\ DeclarationRendered.kind \in {"ClassDeclaration", "InterfaceDeclaration"}
  /\ TypeRendered # Null

\* C13: a class or interface fragment has one member sub-fragment for every
\* member that is neither underscored nor the constructor (nameless, private
\* and protected members included) and none for the others; the constructor
\* shows only in the Constructor Parameters block.
C13_MemberFiltering ==
  ClassRendered =>
    /\ Len(MemberTitles(rendered.doc, RenderPrefix))
          = Len(KeptMembers(DeclarationRendered.members))
    /\ Includes(rendered.doc, ConstructorParametersHead)
          => \E k \in 1..Len(DeclarationRendered.members) :
               DeclarationRendered.members[k].kind = "Constructor"

\* the name a member sub-fragment shows for member m
NameShown(m) ==
  IF m.name.text # <<>> THEN m.name.text
  ELSE IF m.kind = "ConstructSignature" THEN <<"n", "e", "w">>
  ELSE <<"u", "n", "k", "n", "o", "w", "n">>

\* the heading `Class.member` or `class.member` of a title line
HeadingShown(line, prefix) ==
  SubSeq(line, Len(prefix) + 3, SkipNotIn(line, 1, {MIDDOT}) - 2)

\* the members the renderer does not filter out
NonFiltered(members) ==
  SelectSeq(members, LAMBDA m :
              ~(m.name.text # <<>> /\ m.name.text[1] = "_")
              /\ m.kind # "Constructor")

StaticOf(members) ==
  SelectSeq(members, LAMBDA m : "StaticKeyword" \in m.modifiers)
InstanceOf(members) ==
  SelectSeq(members, LAMBDA m : "StaticKeyword" \notin m.modifiers)

\* C14: the member sub-fragments of a class fragment are those of the
\* non-filtered static members in declaration order, followed by those of
\* the non-filtered instance members in declaration order, each once.
C14_MemberOrdering ==
  ClassRendered =>
    LET titles == MemberTitles(rendered.doc, RenderPrefix)
        kept == NonFiltered(DeclarationRendered.members)
        statics == StaticOf(kept)
        instances == InstanceOf(kept)
    IN /\ Len(titles) = Len(statics) + Len(instances)
       /\ \A k \in 1..Len(statics) :
            HeadingShown(titles[k], RenderPrefix)
              = rendered.name \o <<".">> \o NameShown(statics[k])
       /\ \A k \in 1..Len(instances) :
            HeadingShown(titles[Len(statics) + k], RenderPrefix)
              = LowerFirst(rendered.name) \o <<".">>
                  \o NameShown(instances[k])

\* a class that declares an instance member before a static member has
\* been rendered, the static member first
C14_Witness ==
  /\ ClassRendered
  /\ Len(DeclarationRendered.members) >= 3
  /\ "StaticKeyword" \notin DeclarationRendered.members[1].modifiers
  /\ DeclarationRendered.members[1].kind = "PropertyDeclaration"
  /\ DeclarationRendered.members[1].name.text = <<"m">>
  /\ "StaticKeyword" \in DeclarationRendered.members[2].modifiers
  /\ Len(MemberTitles(rendered.doc, RenderPrefix)) = 3
  /\ HeadingShown(MemberTitles(rendered.doc, RenderPrefix)[3], RenderPrefix)
       = <<"k", ".", "m">>

\* a repository URL is configured and git gives no path for the source file:
\* the file is not tracked, or the command fails
DeepLinkFails ==
  /\ repo # Null
  /\ (gitLsFiles.status # 0 \/ Trim(gitLsFiles.stdout) = <<>>)

\* C15: when a repository URL is configured and the lookup of the source
\* file returns no tracked path or fails, every fragment is rendered with
\* the plain kind labels, and generation goes on with the next symbol.
C15_DeepLinkFailureDegrades ==
  DeepLinkFails =>
    /\ rpc # "threw"
    /\ rendered.done =>
         /\ ~rendered.threw
         /\ rendered.doc = generateSymbolDoc(rendered.name, rendered.symbol,
                                             RenderPrefix,
                                             [fileName |-> GoodPath], Null)

DeclarationOf(s) ==
  IF s.valueDeclaration.kind # "none" THEN s.valueDeclaration
  ELSE IF s.declarations # <<>> THEN s.declarations[1]
  ELSE NoNode

\* the checker has answered with a symbol that has a declaration
ResolvesTo(s) == s.tag = "symbol" /\ DeclarationOf(s).kind # "none"

\* what resolveSymbol returns when it resolves nothing
Unresolved(s) ==
  [declaration |-> DeclarationOf(s), originalSymbol |-> s,
   exportDeclaration |-> DeclarationOf(s)]

\* the symbol rendered last is a re-export specifier
ReExportRendered ==
  /\ rendered.done
  /\ DeclarationOf(rendered.symbol).kind = "ExportSpecifier"
  /\ "Alias" \in rendered.symbol.flags

\* C17: for a re-export specifier whose alias resolves to another symbol,
\* resolveSymbol returns that symbol's declaration, whatever its kind; when
\* the alias does not resolve it returns the original symbol and declaration.
C17_AliasResolution ==
  ReExportRendered =>
    IF ResolvesTo(rendered.symbol.aliased)
    THEN /\ rendered.resolved.declaration
              = DeclarationOf(rendered.symbol.aliased)
         /\ rendered.resolved.originalSymbol = rendered.symbol.aliased
    ELSE rendered.resolved = Unresolved(rendered.symbol)

\* the symbol rendered last is a variable initialised by `value as Type`
AssertionRendered ==
  /\ rendered.done
  /\ DeclarationOf(rendered.symbol).kind = "VariableDeclaration"
  /\ DeclarationOf(rendered.symbol).initializer.kind = "AsExpression"

\* what the checker answers for the value of the assertion rendered last
InnerSymbol == DeclarationOf(rendered.symbol).initializer.expression.symbol

\* C18: for a variable initialised by `value as Type` whose value resolves
\* to a symbol with a declaration, resolveSymbol returns that symbol and its
\* declaration and keeps the variable declaration as exportDeclaration; when
\* the value does not resolve, it returns the original symbol and declaration
\* three times.
C18_AssertionResolution ==
  AssertionRendered =>
    IF ResolvesTo(InnerSymbol)
    THEN /\ rendered.resolved.originalSymbol = InnerSymbol
         /\ rendered.resolved.declaration = DeclarationOf(InnerSymbol)
         /\ rendered.resolved.exportDeclaration
              = DeclarationOf(rendered.symbol)
    ELSE rendered.resolved = Unresolved(rendered.symbol)

\* the doc comment the specification finds for a declaration: its own, or
\* for a variable that of its declaration list or of its statement
DocFound(node) ==
  IF node.kind = "none" THEN NoDoc
  ELSE IF node.jsDoc # <<>> THEN node.jsDoc[1]
  ELSE IF node.kind = "VariableDeclaration" /\ node.parent.jsDoc # <<>>
  THEN node.parent.jsDoc[1]
  ELSE IF node.kind = "VariableDeclaration" /\ node.parent.parent.jsDoc # <<>>
  THEN node.parent.parent.jsDoc[1]
  ELSE NoDoc

\* the summary paragraph of a fragment: the paragraph after the title line,
\* unless it is the first line of the body or of a member
SummaryShown(doc) ==
  LET from == Len(FirstLine(doc)) + 3
      line == FirstLine(SubSeq(doc, from, Len(doc)))
  IN IF line # <<>> /\ line[1] \notin {"*", HASH} THEN line ELSE <<>>

HasTag(node, tagName) ==
  node.jsDoc # <<>>
  /\ \E k \in 1..Len(node.jsDoc[1].tags) :
        node.jsDoc[1].tags[k].tagName = tagName

\* C20: when the oracle fails to render the type of an exported function,
\* the fragment still has a signature line and the blocks of the parameters
\* and of the returns, throws and example tags the function has.
C20_FunctionWithoutType ==
  (Rendered /\ DeclarationRendered.kind = "FunctionDeclaration"
     /\ TypeRendered = Null) =>
    /\ Includes(rendered.doc, SignatureLine)
    /\ DeclarationRendered.parameters # <<>>
         => Includes(rendered.doc, ParametersHead)
    /\ HasTag(DeclarationRendered, "returns")
         => Includes(rendered.doc, ReturnsHead)
    /\ HasTag(DeclarationRendered, "throws")
         => Includes(rendered.doc, ThrowsHead)
    /\ HasTag(DeclarationRendered, "example")
         => Includes(rendered.doc, ExamplesHead)

\* ------------------------------------------------------------------ C21
\* the nodes isConst may look at: the declaration and its ancestors, up to
\* and including the first variable statement
RECURSIVE WalkPath(_)
WalkPath(n) ==
  IF n.kind = "none" THEN <<>>
  ELSE IF n.kind = "VariableStatement" THEN <<n>>
  ELSE <<n>> \o WalkPath(n.parent)

CarriesConst(n) ==
  \/ "Const" \in n.flags
  \/ /\ n.kind = "VariableStatement"
     /\ n.declarationList.kind # "none"
     /\ "Const" \in n.declarationList.flags

ConstOnPath(d) == \E k \in 1..Len(WalkPath(d)) : CarriesConst(WalkPath(d)[k])

IsConstCalled == fn = "isConst"

\* C21: isConst walks from the declaration upward and answers true at the
\* first node that carries the const flag; at the enclosing variable
\* statement it answers from the statement's declaration list and goes no
\* further; without a flag on the way the declaration is mutable and
\* getTypeLabel yields 'variable'; the walk always ends.
C21_ConstWalk ==
  /\ [](IsConstCalled =>
          /\ walk.kind = "none"
             \/ \E k \in 1..Len(WalkPath(input)) : walk = WalkPath(input)[k]
          /\ answer.done =>
               /\ answer.value = ConstOnPath(input)
               /\ answer.value = isConst(input)
               /\ answer.value <=> getTypeLabel(input, TNumber) = LConstant
               /\ ~answer.value <=> getTypeLabel(input, TNumber) = LVariable)
  /\ <>(IsConstCalled => answer.done)

C21_Witness ==
  /\ IsConstCalled
  /\ answer.done
  /\ ~answer.value
  /\ walk.kind = "VariableStatement"
  /\ walk.parent.kind # "none"
  /\ "Const" \in walk.parent.flags

\* ------------------------------------------------------------------ C22
\* the tags of the first doc comment of a declaration
TagsOf(declaration) ==
  IF declaration.jsDoc = <<>> THEN <<>> ELSE declaration.jsDoc[1].tags

\* the places of the @param tags whose written name is exactly name
ParamTagsWritten(tags, name) ==
  { k \in 1..Len(tags) : tags[k].tagName = "param" /\ tags[k].name.text = name }

FirstOf(places) == CHOOSE k \in places : \A j \in places : k <= j

\* the comment that belongs to a parameter by its exact name
CommentByName(tags, name) ==
  IF ParamTagsWritten(tags, name) = {} THEN <<>>
  ELSE tags[FirstOf(ParamTagsWritten(tags, name))].comment

\* the entry of one parameter: name, type and the comment, if any
ParameterEntry(param, comment) ==
  <<"-", SP>> \o Code(param.name \o <<COLON, SP>> \o param.type)
  \o (IF comment # <<>> THEN <<SP, "-", SP>> \o comment ELSE <<>>) \o <<NL>>

RECURSIVE EntriesByName(_, _)
EntriesByName(parameters, tags) ==
  IF parameters = <<>> THEN <<>>
  ELSE ParameterEntry(Head(parameters),
                      CommentByName(tags, Head(parameters).name))
       \o EntriesByName(Tail(parameters), tags)

\* C22: generateParameters lists every declared parameter once, in
\* declaration order, each with the comment of the first @param tag whose
\* name is exactly the parameter's name, and without a comment when there is
\* no such tag; tags that name no declared parameter give no entry.
C22_ParametersByName ==
  (fn = "generateParameters" /\ answer.done) =>
     answer.value = ParametersHead
                    \o EntriesByName(input.parameters, TagsOf(input))
                    \o <<NL>>

\* ------------------------------------------------------------------ C23
\* a comment without one leading "- "
Stripped(comment) ==
  IF StartsWith(comment, <<"-", SP>>) THEN SubSeq(comment, 3, Len(comment))
  ELSE comment

\* the comment of the k-th type parameter: that of the k-th @template tag
CommentByPosition(tags, k) ==
  IF k <= Len(TagsNamed(tags, "template"))
  THEN Stripped(TagsNamed(tags, "template")[k].comment) ELSE <<>>

TypeParameterEntry(param, comment) ==
  <<"-", SP>> \o Code(param.name)
  \o (IF comment # <<>> THEN <<SP, "-", SP>> \o comment ELSE <<>>) \o <<NL>>

RECURSIVE EntriesByPosition(_, _, _)
EntriesByPosition(typeParameters, tags, k) ==
  IF k > Len(typeParameters) THEN <<>>
  ELSE TypeParameterEntry(typeParameters[k], CommentByPosition(tags, k))
       \o EntriesByPosition(typeParameters, tags, k + 1)

TypeParametersCalled == fn = "generateTypeParameters" /\ answer.done

\* C23: generateTypeParameters lists every type parameter once, in
\* declaration order; the N-th carries the comment of the N-th @template tag
\* without one leading "- ", whatever name the tag is written with, and the
\* type parameters beyond the last @template tag carry no comment.
C23_TemplateByPosition ==
  TypeParametersCalled =>
     answer.value = TypeParametersHead
                    \o EntriesByPosition(input.typeParameters,
                                         input.jsDoc.tags, 1)
                    \o <<NL>>

\* <V, U> with one tag, `@template U - Y`: V is documented, U is not
C23_Witness ==
  /\ TypeParametersCalled
  /\ Len(input.typeParameters) = 2
  /\ Len(TagsNamed(input.jsDoc.tags, "template")) = 1
  /\ TagsNamed(input.jsDoc.tags, "template")[1].name.text
       = input.typeParameters[2].name
  /\ CommentByPosition(input.jsDoc.tags, 1) = <<"Y">>

\* ------------------------------------------------------------------ C24
\* the kind label of the title line of a member sub-fragment
MemberLabel(line) ==
  PlainLabel(SubSeq(line, SkipNotIn(line, 1, {MIDDOT}) + 2, Len(line)))

MemberKinds ==
  { <<"m", "e", "t", "h", "o", "d">>,
    <<"p", "r", "o", "p", "e", "r", "t", "y">>,
    <<"g", "e", "t", "t", "e", "r">>,
    <<"s", "e", "t", "t", "e", "r">>,
    <<"c", "o", "n", "s", "t", "r", "u", "c", "t", "o", "r">> }

\* nothing, 'abstract ', 'static ' or 'abstract static ' before a kind
MemberKindLabels ==
  { a \o s \o k :
      a \in {<<>>, <<"a", "b", "s", "t", "r", "a", "c", "t", SP>>},
      s \in {<<>>, <<"s", "t", "a", "t", "i", "c", SP>>},
      k \in MemberKinds }

\* C24: the kind label of every member sub-fragment, of a class or of an
\* interface, is an optional 'abstract ', an optional 'static ' and one of
\* method, property, getter, setter, constructor.
C24_MemberKindLabel ==
  ClassRendered =>
    \A k \in 1..Len(MemberTitles(rendered.doc, RenderPrefix)) :
       MemberLabel(MemberTitles(rendered.doc, RenderPrefix)[k])
         \in MemberKindLabels

\* ------------------------------------------------------------------ C25
ClassDocCalled == fn = "generateClassDoc" /\ answer.done

\* the @param tags of the doc comment of the constructor, if there is one
ConstructorParamTags(declaration) ==
  LET constructors == { k \in 1..Len(declaration.members) :
                          declaration.members[k].kind = "Constructor" }
  IN IF constructors = {} THEN <<>>
     ELSE TagsNamed(TagsOf(declaration.members[FirstOf(constructors)]),
                    "param")

RECURSIVE ConstructorEntries(_)
ConstructorEntries(tags) ==
  IF tags = <<>> THEN <<>>
  ELSE <<"-", SP>> \o Code(Head(tags).name.text) \o <<COLON, SP>>
       \o Head(tags).comment \o <<NL>> \o ConstructorEntries(Tail(tags))

\* C25: the Constructor Parameters block of a class fragment lists the
\* @param tags of the constructor's own doc comment, in tag order, and no
\* tag of the class's doc comment; there is no block when the class has no
\* constructor or the constructor's doc comment has no @param tag.
C25_ConstructorParameters ==
  ClassDocCalled =>
    /\ ConstructorParamTags(input) = <<>>
          => ~Includes(answer.value, ConstructorParametersHead)
    /\ ConstructorParamTags(input) # <<>>
          => Includes(answer.value,
                      ConstructorParametersHead
                      \o ConstructorEntries(ConstructorParamTags(input))
                      \o <<NL>>)
    /\ ~Includes(answer.value, Code(<<"k">>))

\* a class documented with @param k, a method documented with @param p and
\* a constructor documented with @param d and @param c: the block lists d, c
C25_Witness ==
  /\ ClassDocCalled
  /\ TagsNamed(TagsOf(input), "param") # <<>>
  /\ Len(input.members) = 2
  /\ input.members[1] = DocumentedMethod
  /\ Len(ConstructorParamTags(input)) = 2
  /\ ConstructorParamTags(input)[1].name.text = <<"d">>
  /\ ConstructorParamTags(input)[2].name.text = <<"c">>

\* ------------------------------------------------------------------ C26
\* the type lookup of a member fails: the checker throws or knows no symbol
LookupFails(m) == m.symbol.tag \in {"none", "throws"}

\* the title line and the summary of the sub-fragment of instance member m
StructuralEntry(m) ==
  RenderPrefix \o <<HASH, SP, "k", ".">> \o NameShown(m) \o Sep
  \o getMemberType(m, FALSE) \o TwoNL
  \o (IF m.jsDoc = <<>> \/ m.jsDoc[1].comment = <<>> THEN <<>>
      ELSE m.jsDoc[1].comment \o TwoNL)

\* the sub-fragment of the documented method m(p: n), rendered in full
MethodRendered ==
  StructuralEntry(DocumentedMethod) \o SignatureLine \o Code(<<"n">>) \o TwoNL
  \o ParametersHead
  \o ParameterEntry(DocumentedMethod.parameters[1], <<"P">>) \o <<NL>>

FailedLookup ==
  /\ ClassDocCalled
  /\ \E k \in 1..Len(NonFiltered(input.members)) :
        LookupFails(NonFiltered(input.members)[k])

\* the heading and the summary of every member are there, and the members
\* whose lookup succeeds are rendered in full
EntriesEmitted ==
  /\ Len(MemberTitles(answer.value, RenderPrefix))
       = Len(NonFiltered(input.members))
  /\ \A k \in 1..Len(NonFiltered(input.members)) :
        Includes(answer.value, StructuralEntry(NonFiltered(input.members)[k]))
  /\ (\E k \in 1..Len(input.members) : input.members[k] = DocumentedMethod)
        => Includes(answer.value, MethodRendered)

\* C26: when the type lookup of a class member fails (the checker throws,
\* or knows no symbol for the member name), a warning is logged, the heading
\* and the summary of that member are emitted all the same, and the other
\* members of the class are rendered as usual.
C26_MemberLookupFailure ==
  FailedLookup => (stderr # <<>> /\ EntriesEmitted)

\* ------------------------------------------------------------------ C27
\* offset of the end of the region of match m in the text t
RegionEnd(t, m) ==
  findNextHeadingBoundary(t, m.end, IF m.level # 0 THEN m.level ELSE 2)

\* the character at offset q of t lies in the span or the region of a match
Covered(t, ms, q) ==
  \E k \in 1..Len(ms) : ms[k].index <= q /\ q < RegionEnd(t, ms[k])

\* the maximal runs of characters of t from offset q on that no match covers,
\* in order; held is the one being collected
RECURSIVE OutsideRuns(_, _, _, _)
OutsideRuns(t, ms, q, held) ==
  IF q >= Len(t) THEN (IF held = <<>> THEN <<>> ELSE <<held>>)
  ELSE IF Covered(t, ms, q)
  THEN (IF held = <<>> THEN <<>> ELSE <<held>>) \o OutsideRuns(t, ms, q + 1, <<>>)
  ELSE OutsideRuns(t, ms, q + 1, Append(held, t[q + 1]))

\* the first position at or after p where s stands in t, 0 when there is none
RECURSIVE FindFrom(_, _, _)
FindFrom(t, s, p) ==
  IF p + Len(s) - 1 > Len(t) THEN 0
  ELSE IF SubSeq(t, p, p + Len(s) - 1) = s THEN p
  ELSE FindFrom(t, s, p + 1)

\* the texts of runs stand in t one after the other, from position p on
RECURSIVE InOrder(_, _, _)
InOrder(runs, t, p) ==
  IF runs = <<>> THEN TRUE
  ELSE /\ FindFrom(t, Head(runs), p) # 0
       /\ InOrder(Tail(runs), t, FindFrom(t, Head(runs), p) + Len(Head(runs)))

\* C27: after a successful pass, the text of the document outside every
\* match span and every replaced region (before the first match, and from
\* each region's boundary heading to the next match) stands in the output
\* unchanged and in the same order.
C27_SpliceFrame ==
  pc = "done" => InOrder(OutsideRuns(readme, matches, 0, <<>>), disk, 1)

\* ------------------------------------------------------------------ C28
\* the text of match m in the document it was found in: the heading line,
\* when one was matched, and the marker line (fullMatch)
FullMatch(t, m) == Substring(t, m.index, m.end)

\* C28: when an iteration has spliced the fragment of a match, the working
\* text holds, at the offset of the match, the heading line (when one was
\* matched) and the marker line exactly as they stood in the document.
C28_MarkerLinesPreserved ==
  Spliced =>
    Substring(last.after, last.match.index, last.match.end)
      = FullMatch(readme, last.match)

\* ------------------------------------------------------------------ C29
\* the body of the fragment rendered last: what follows the title line and
\* the summary paragraph
BodyRendered ==
  LET afterTitle == SubSeq(rendered.doc, Len(FirstLine(rendered.doc)) + 3,
                           Len(rendered.doc))
      summary == SummaryShown(rendered.doc)
  IN IF summary = <<>> THEN afterTitle
     ELSE SubSeq(afterTitle, Len(summary) + 3, Len(afterTitle))

LType == <<"t", "y", "p", "e">>
LValue == <<"v", "a", "l", "u", "e">>

\* the oracle has rendered the type of the declaration
TypeAvailable == TypeRendered # Null /\ TypeRendered # <<>>

\* C29: for a resolved declaration whose type the oracle has rendered, the
\* label is function exactly when the body starts with a signature line,
\* type exactly when the body is the type line of the declared type text,
\* and constant, variable or value exactly when the body is one value line.
C29_LabelAndBodyAgree ==
  (Rendered /\ TypeAvailable) =>
    /\ LabelRendered = LFunction <=> StartsWith(BodyRendered, SignatureLine)
    /\ LabelRendered = LType
          <=> BodyRendered = TypeLine \o Code(DeclarationRendered.type) \o TwoNL
    /\ LabelRendered \in {LConstant, LVariable, LValue}
          <=> BodyRendered = ValueLine \o Code(TypeRendered) \o TwoNL

\* ------------------------------------------------------------------ C30
\* the doc comment of the fragment: that of the export declaration when it
\* has one, that of the resolved declaration otherwise
SelectedDoc ==
  IF DocFound(rendered.resolved.exportDeclaration).present
  THEN DocFound(rendered.resolved.exportDeclaration)
  ELSE DocFound(DeclarationRendered)

\* the body of a function declaration with every block read from the doc
\* comment d: the signature, the type parameters, the parameters, the tags
OneCommentBody(declaration, typeString, d) ==
  SignatureLine \o Code(typeString) \o TwoNL
  \o (IF declaration.typeParameters # <<>>
      THEN generateTypeParameters(declaration.typeParameters, d) ELSE <<>>)
  \o (IF declaration.parameters # <<>>
      THEN ParametersHead \o ParameterLines(declaration.parameters, d)
           \o <<NL>>
      ELSE <<>>)
  \o generateJSDocTags(d)

\* the fragment of a function declaration whose type the oracle rendered
FunctionRendered ==
  Rendered /\ TypeAvailable /\ DeclarationRendered.kind = "FunctionDeclaration"

\* C30: in the fragment of an exported function the summary paragraph, the
\* comments of the parameters, the comments of the type parameters and the
\* returns, throws and examples blocks all come from one doc comment, the
\* one the export-declaration-first lookup selects.
C30_OneDocComment ==
  FunctionRendered =>
    /\ SummaryShown(rendered.doc) = SelectedDoc.comment
    /\ BodyRendered
         = OneCommentBody(DeclarationRendered, TypeRendered, SelectedDoc)

====
